---- MODULE Spec2Model ----
(***************************************************************************)
(* pyo3-async: the coroutine engine (src/src/coroutine.rs), the asyncio    *)
(* waker backend (src/src/asyncio.rs), the host-visible methods generated  *)
(* by utils::generate! (src/src/utils.rs) and the async-generator engine   *)
(* (src/src/async_generator.rs), as a state machine.                       *)
(*                                                                         *)
(* A host thread runs a step of a Coroutine in three phases: Enter (GIL    *)
(* held: coroutine.rs 81-103), the poll of the wrapped future or stream    *)
(* (GIL released by Python::allow_threads, lib.rs 33-38 and 60-69: other   *)
(* threads run), and Exit (GIL held again: coroutine.rs 107-113).          *)
(***************************************************************************)
EXTENDS Integers, Sequences, FiniteSets, TLC

\* ------------------------------------------------------------------ bounds
MaxSteps   == 3   \* calls of Coroutine::poll per coroutine
MaxPending == 1   \* Pending results before the future (or the next item) is Ready
NItems     == 2   \* items the stream produces before it ends
MaxFetch   == NItems + 2   \* coroutines one AsyncGenerator hands out
MaxPolls   == 3   \* polls of one FutureWrapper or AsyncGeneratorWrapper
MaxThreads == 3   \* OS threads spawned over the life of the process
MaxLive    == 2   \* unresolved coroutines of one AsyncGenerator held at once
MaxYields  == MaxPending + 1   \* Pending results of a future that is woken each time

\* ----------------------------------------------------------------- threads
Loop  == "loop"    \* the thread running the host event loop
Host2 == "host2"   \* a second host (Python) thread
Exec  == "exec"    \* a thread of the executor that completes the work
HostThreads == {Loop, Host2}
Threads     == HostThreads \cup {Exec}

Errors == {"E1", "E2"}          \* exceptions the host injects with throw()

Items == [k \in 1..NItems |-> k]   \* the stream's items i1..in, in order

VARIABLES
    coros,      \* the Coroutine objects: a sequence of records
    wakers,     \* every Waker<W> created: a sequence of records
    inflight,   \* per host thread: the call it is inside of (poll in progress)
    att,        \* per host thread: a call of it was refused (PyBorrowMutError)
    fut,        \* the wrapped user future and its throw-callback
    gen,        \* the AsyncGenerator and its shared StreamNext handle
    stream,     \* the wrapped stream: items taken, Pending results left before
                \* the next one, polls made after its end was reported
    panicked,   \* "" or the call that panicked
    rt,         \* W: the waker backend the Coroutine type was generated for;
                \* lib: the async library running on the host threads;
                \* trace: the calls of the backend's operations are recorded
    gil,        \* the thread holding the GIL between two actions, or "-"
    ids,        \* current_thread_id: the THREAD_COUNTER static, and per OS
                \* thread ever spawned its life, its THREAD_ID thread-local
                \* and the values its calls have returned
    fw,         \* a FutureWrapper and the Python future it wraps
    agw         \* an AsyncGeneratorWrapper and the Python async generator it
                \* wraps

vars == <<coros, wakers, inflight, att, fut, gen, stream, panicked, rt, gil, ids,
          fw, agw>>

\* utils.rs 6-13.  OS threads are numbered in spawning order; a thread's
\* THREAD_ID thread-local is Uninit until its first current_thread_id call
\* and goes with the thread when it exits.
OsThreads == 1..MaxThreads

Uninit == -1

NoIds == [THREAD_COUNTER |-> 0,
          life      |-> [th \in OsThreads |-> "unborn"],
          THREAD_ID |-> [th \in OsThreads |-> Uninit],
          read      |-> [th \in OsThreads |-> {}]]

\* lib.rs 76-79 and 93-98: a FutureWrapper (cancel_on_drop: "None" or the
\* policy) around a Python future `py` ("pending", or finished: "done",
\* "failed", "cancelled") with its done-callbacks `cbs`.  The other fields
\* record what happened: built (the policy given to new), life, pc (the poll
\* in progress has seen done() false), polls, last (result of the latest
\* poll), readied (a poll returned Ready), cancels (calls of cancel),
\* cancelRes (how the cancel call ended), woken (the wake handles invoked).
NoFw == [cancel_on_drop |-> "None", built |-> "None", life |-> "none",
         pc |-> "idle", polls |-> 0, last |-> "-", readied |-> FALSE,
         py |-> "pending", cbs |-> <<>>, cancels |-> 0, cancelRes |-> "-",
         woken |-> <<>>]

\* asyncio.rs 212-224: an AsyncGeneratorWrapper (next: it holds an
\* AwaitableWrapper, made from the id-th __anext__ awaitable) around a Python
\* async generator.  Of the awaitable in flight: left (futures it still
\* yields before finishing), fin (how it finishes), yielded (the state of the
\* future it yielded last).  The other fields record what happened: anexts
\* (calls of __anext__), polls, last (result of the latest poll_next), res
\* (what the awaitable's poll gave in it), lastId (the awaitable that poll
\* was made on) and given (the values the stream has produced).
NoAgw == [next |-> FALSE, id |-> 0, left |-> 0, fin |-> "-", yielded |-> "-",
          anexts |-> 0, polls |-> 0, last |-> "-", res |-> "-", lastId |-> 0,
          given |-> 0]

\* --------------------------------------------------------------- outcomes
\* IterNextOutput::Yield / IterNextOutput::Return / Err(PyErr) of a step.
NoOut     == [k |-> "none",   e |-> "", v |-> 0]
Yield(w)  == [k |-> "yield",  e |-> "", v |-> w]
Return(v) == [k |-> "return", e |-> "", v |-> v]
Raise(e)  == [k |-> "err",    e |-> e,  v |-> 0]

ReuseError == "cannot reuse already awaited coroutine"
UnsupportedRuntime == "unsupported runtime"
StopAsyncIteration == "StopAsyncIteration"

NoFlight == [c |-> 0, m |-> "-", w |-> 0, woken |-> FALSE]

\* ------------------------------------------------- asyncio.Future (host)
AsyncioRaise_PendingOk(f) == IF f = "cancelled" THEN "CancelledError" ELSE ""

\* The waker's asyncio.Future is "pending", "done" (set_result) or
\* "cancelled".  Waker::raise calls Future.result().
AsyncioRaise(f) ==
    CASE f = "pending"   -> "InvalidStateError"
      [] f = "cancelled" -> "CancelledError"
      [] OTHER           -> ""

\* Waker::yield_ calls Future.__await__().__next__(): a pending future yields
\* itself, a finished one raises StopIteration(result) or its exception.
AsyncioYield(f) ==
    CASE f = "pending"   -> ""
      [] f = "cancelled" -> "CancelledError"
      [] OTHER           -> "StopIteration"

\* Future.set_result raises InvalidStateError unless the future is pending.
SetResultFails(f) == f # "pending"

\* --------------------------------------------------------------- the GIL
\* A #[pymethods] method runs on a thread that holds the GIL (its `py`
\* token); between two actions the GIL is free ("-") unless a host thread
\* keeps it while it runs other Python code.
Holds(t) == gil \in {"-", t}

WithGil_NoAcquire(t) == TRUE

\* Python::with_gil (coroutine.rs 36 and 38): the calling thread goes on once
\* it holds the GIL.
WithGil(t) == gil \in {"-", t}

\* ------------------------------------------------------ waker backends
Backends == {"asyncio", "trio"}

Sniffed_Fallback(lib) == IF lib = "trio" THEN "trio" ELSE "asyncio"

\* sniffio.rs 16-21: the match on sniffio.current_async_library().
Sniffed(lib) == IF lib \in Backends THEN lib ELSE "unsupported"

\* The concrete backend inside a new waker of type W.
Inner == IF rt.W = "sniffio" THEN Sniffed(rt.lib) ELSE rt.W

\* sniffio.rs 20: Waker::new fails, `W::new(py)?` returns from the step.
NewFails == Inner = "unsupported"

\* The host threads may also run no async library at all: no thread has a
\* current event loop and no trio run is under way.
NoLib == "none"

NoEventLoop     == "RuntimeError: no current event loop"
NotInTrio       == "RuntimeError: must be called from async context"
LibraryNotFound == "AsyncLibraryNotFoundError"

\* asyncio.rs 18-20: asyncio.Future() looks up the thread's current event
\* loop and raises without one.
AsyncioFutureError == IF rt.lib = NoLib THEN NoEventLoop ELSE ""

\* trio.rs 25: trio.lowlevel.current_task() raises outside a trio run.
TrioCurrentTaskError == IF rt.lib = NoLib THEN NotInTrio ELSE ""

\* W::new(py) of coroutine.rs 99: the error it returns, or "".  asyncio.rs
\* 29, trio.rs 25, sniffio.rs 16-21 (the probe raises when no library runs).
NewError ==
    CASE rt.W = "asyncio" -> AsyncioFutureError
      [] rt.W = "trio"    -> TrioCurrentTaskError
      [] OTHER -> IF rt.lib = NoLib THEN LibraryNotFound
                  ELSE IF NewFails THEN UnsupportedRuntime
                  ELSE ""

\* Waker::update of backend b (coroutine.rs 96): asyncio.rs 62 makes a new
\* asyncio.Future; trio keeps the default, which cannot fail.
UpdateError(b) == IF b = "asyncio" THEN AsyncioFutureError ELSE ""

\* The errors of the host calls made to create or refresh a waker.
WakerErrors == {UnsupportedRuntime, NoEventLoop, NotInTrio, LibraryNotFound}

FutureAfterHostError_Take(future) == "none"

\* coroutine.rs 96, 99 and 112: the `?` returns from the step with the
\* error; self.future is not taken.
FutureAfterHostError(future) == future

Delegate_Crossed(op, inner) ==
    IF op = "wake" /\ inner = "trio" THEN "asyncio" ELSE inner

\* sniffio.rs 24-50: yield_, wake, update and raise match on the variant and
\* call the same operation of the backend inside.
Delegate(op, inner) == inner

\* The runtime-detecting waker's wake_threadsafe (declared at coroutine.rs 19,
\* called at coroutine.rs 38): it delegates like the other four.
DelegateThreadsafe(inner) == inner

\* The backend whose code runs operation op of waker wk.
Backend(op, wk) ==
    IF rt.W # "sniffio" THEN rt.W
    ELSE IF op = "wake_threadsafe" THEN DelegateThreadsafe(wk.inner)
    ELSE Delegate(op, wk.inner)

\* With tracing on, each call of a backend operation on a waker is recorded
\* with the backend that ran it, the calling thread, and whether that thread
\* held the GIL.
Logged(wk, op, b, t) ==
    IF rt.trace THEN [wk EXCEPT !.ops = @ \cup {<<op, b, t, gil \in {"-", t}>>}]
    ELSE wk

\* raise: asyncio.rs 66-69; trio keeps the default (coroutine.rs 23-25).
WakerRaise(b, f) == IF b = "asyncio" THEN AsyncioRaise(f) ELSE ""

\* yield_: asyncio.rs 39-43; trio.rs 30-36 always has a fresh
\* wait_task_rescheduled awaitable to yield.
WakerYield(b, f) == IF b = "asyncio" THEN AsyncioYield(f) ELSE ""

\* wake (asyncio.rs 45-49, trio.rs 38-43): both `expect` the host call to
\* succeed; set_result fails on a finished future, reschedule on a task that
\* was already rescheduled.
WakePanic(b) == IF b = "asyncio" THEN "Future.set_result" ELSE "trio.reschedule"

\* Waker::new (asyncio.rs 28-37: a fresh asyncio.Future; trio.rs 22-28: the
\* current task and token), and the creating thread's id (coroutine.rs 100).
NewWaker(t) ==
    Logged([thread |-> t, fut |-> "pending", held |-> FALSE, sched |-> FALSE,
            inner |-> Inner, ops |-> {}],
           "new", Inner, t)

\* The Arc is freed when the last clone goes and no coroutine holds it; a new
\* Arc takes the first free slot.
FreedWaker == [thread |-> "-", fut |-> "-", held |-> FALSE, sched |-> FALSE,
               inner |-> "-", ops |-> {}]

FreeSlots == {w \in DOMAIN wakers : wakers[w] = FreedWaker}

NewSlot ==
    IF FreeSlots = {} THEN Len(wakers) + 1
    ELSE CHOOSE w \in FreeSlots : \A v \in FreeSlots : w <= v

UpdatedWaker_Stale(wk) == wk

\* Waker::update: the waker's future is replaced by a fresh one.
UpdatedWaker(wk) == [wk EXCEPT !.fut = "pending", !.sched = FALSE]

\* update of backend b on the step's thread t: asyncio.rs 61-64; trio keeps
\* the default (coroutine.rs 20-22) and the task, resumed by the host for
\* this step, can be rescheduled again.
WakerUpdate(b, wk, t) ==
    Logged(IF b = "asyncio" THEN UpdatedWaker(wk)
           ELSE [wk EXCEPT !.fut = "pending", !.sched = FALSE],
           "update", b, t)

\* ------------------------------------------------------- coroutine.rs
\* Coroutine::new.  `future` is "none" once the Option is taken, else the
\* kind of future held: "user", or one the AsyncGenerator builds ("fetch",
\* "fetchclose": PyStreamNext; "raise": async move { Err(exc) }, exc in arg).
\* The other fields record what the steps did: out (latest outcome), res
\* (the outcome that resolved the coroutine), steps, polls, inj (the error
\* argument of the latest step), term (why the future is gone), lastPoll,
\* early (the latest poll was woken while in progress), cout (latest close).
NewCoroutine(future, throw, arg) ==
    [kind |-> future, future |-> future, throw |-> throw, waker |-> 0, arg |-> arg,
     out |-> NoOut, res |-> NoOut, steps |-> 0, polls |-> 0,
     inj |-> "", term |-> "", lastPoll |-> "", early |-> FALSE, cout |-> "-"]

Borrowed(c) == \E t \in HostThreads : inflight[t].c = c

TryBorrowMut_Unchecked(c) == TRUE

\* `&mut self` of a #[pymethods] method: PyCell::try_borrow_mut.
TryBorrowMut(c) == ~Borrowed(c)

EffectiveExc_WakerFirst(co, exc) ==
    LET r == IF co.waker = 0 THEN ""
             ELSE WakerRaise(Backend("raise", wakers[co.waker]), wakers[co.waker].fut)
    IN IF r # "" THEN r ELSE exc

\* coroutine.rs 86: exc.or_else(|| waker.and_then(|w| w.inner.raise(py).err()))
EffectiveExc(co, exc) ==
    IF exc # "" THEN exc
    ELSE IF co.waker = 0 THEN ""
    ELSE WakerRaise(Backend("raise", wakers[co.waker]), wakers[co.waker].fut)

ThrowDispatch_PollAnyway(eff, throw) ==
    IF eff = "" THEN "poll"
    ELSE IF throw THEN "callback"
    ELSE "poll"

ThrowDispatch_NoCallback(eff, throw) ==
    IF eff = "" THEN "poll" ELSE "drop"

\* coroutine.rs 87-94: what the step does with the effective injected error.
ThrowDispatch(eff, throw) ==
    IF eff = "" THEN "poll"
    ELSE IF throw THEN "callback"
    ELSE "drop"

WakerUnique_AnyCount(co) == co.waker # 0

\* coroutine.rs 95: self.waker.as_mut().and_then(Arc::get_mut) is Some.
WakerUnique(co) == co.waker # 0 /\ ~wakers[co.waker].held

CallbackReached_AfterWaker(fails) == ~fails

\* coroutine.rs 87-88 against 95-102: the callback is called in the match
\* that precedes the waker's update or creation, so a step reaches it
\* whether or not `W::new(py)?` then fails.
CallbackReached(fails) == TRUE

\* The ThrowCallback of the wrapped future, called with Some(exc) or None.
\* A converting callback makes the future complete with a value instead.
Callback(f, arg) ==
    [f EXCEPT !.cbArg = arg,
              !.final = IF f.conv /\ arg # "None" THEN "conv" ELSE f.final,
              !.calls = IF rt.trace THEN Append(@, arg) ELSE @]

FutValue(final) == IF final = "conv" THEN 200 ELSE 100

FutureAfterReady_Keep(future) == future

\* coroutine.rs 107-111: Poll::Ready takes the future out of the coroutine.
FutureAfterReady(future) == "none"

FutureAfterThrow_Keep(future) == future

\* coroutine.rs 90: an injected error without throw-callback takes the future.
FutureAfterThrow(future) == "none"

FutureAfterClose_Keep(future) == future

\* coroutine.rs 59: close takes the future out of the coroutine first.
FutureAfterClose(future) == "none"

Resolve_ErrFirst(co, out) ==
    [co EXCEPT !.future = IF out.k = "err" THEN @ ELSE FutureAfterReady(@),
               !.out = out, !.res = out, !.lastPoll = "ready",
               !.term = IF out.k = "err" THEN "failed" ELSE "returned"]

\* coroutine.rs 108-111: the step that got Poll::Ready(res).
Resolve(co, out) ==
    [co EXCEPT !.future = FutureAfterReady(co.future),
               !.out = out, !.res = out, !.lastPoll = "ready",
               !.term = IF out.k = "err" THEN "failed" ELSE "returned"]

\* ------------------------------------------------- async_generator.rs
IsFetch(future) == future \in {"fetch", "fetchclose"}

\* async_generator.rs 25: StreamNext.0 is None.
HandleEmpty == ~gen.slot

\* async_generator.rs 24: borrow_mut finds the handle's PyCell mutably
\* borrowed by a poll_py that has not returned (gen.lock is its thread).
HandleBorrowed == gen.lock # "-"

LockAfterPoll_HeldOnPending(p, holder) == IF p = "pending" THEN holder ELSE "-"

\* async_generator.rs 24-37: ref_mut is a local of poll_py and is dropped on
\* each of its returns, `ready!` on Pending included.
LockAfterPoll(p, holder) == "-"

ClearOnItem_Always(close) == TRUE

ClearOnItem_Never(close) == FALSE

\* async_generator.rs 30-32: an item clears the handle only under close.
ClearOnItem(close) == close

SlotAfterEnd_Keep == TRUE

\* async_generator.rs 35: the end of the stream clears the handle.
SlotAfterEnd == FALSE

\* The result of polling the wrapped stream once.
StreamPoll(s) ==
    IF s.pend > 0 THEN "pending"
    ELSE IF s.pos < NItems THEN "item" ELSE "end"

\* The result of polling the wrapped user future once.
PollUser(f) == IF f.pend > 0 THEN "pending" ELSE "ready"

\* PyFuture::poll_py of the future a coroutine holds: Pending, or Ready with
\* the step's outcome.
PollOf(co) ==
    CASE co.future = "user" ->
            [p |-> PollUser(fut),
             out |-> IF fut.final = "err" THEN Raise("FutureError")
                     ELSE Return(FutValue(fut.final))]
      [] co.future = "raise" ->
            [p |-> "ready", out |-> Raise(co.arg)]
      [] OTHER ->
            [p |-> IF StreamPoll(stream) = "pending" THEN "pending" ELSE "ready",
             out |-> IF StreamPoll(stream) = "item"
                     THEN Return(Items[stream.pos + 1])
                     ELSE Raise(StopAsyncIteration)]

\* What one poll does to the polled computation and to the shared handle.
PollEffect(co) ==
    CASE co.future = "user" ->
            /\ fut' = IF PollUser(fut) = "pending" THEN [fut EXCEPT !.pend = @ - 1] ELSE fut
            /\ UNCHANGED <<gen, stream>>
      [] co.future = "raise" ->
            UNCHANGED <<fut, gen, stream>>
      [] OTHER ->
            /\ UNCHANGED fut
            /\ CASE StreamPoll(stream) = "pending" ->
                      /\ stream' = [stream EXCEPT !.pend = @ - 1]
                      /\ gen' = [gen EXCEPT !.lock = LockAfterPoll("pending", @)]
                 [] StreamPoll(stream) = "item" ->
                      /\ \E p \in 0..MaxPending :
                            stream' = [stream EXCEPT !.pos = @ + 1, !.pend = p]
                      /\ gen' = [gen EXCEPT !.slot =
                                    IF ClearOnItem(co.future = "fetchclose")
                                    THEN FALSE ELSE @,
                                    !.lock = LockAfterPoll("ready", @)]
                 [] OTHER ->
                      /\ stream' = [stream EXCEPT !.late = @ + (IF gen.ended THEN 1 ELSE 0)]
                      /\ gen' = [gen EXCEPT !.slot = SlotAfterEnd, !.ended = TRUE,
                                            !.lock = LockAfterPoll("ready", @)]

\* Enter of Coroutine::poll (coroutine.rs 76-106) by host thread t, called by
\* send / __next__ (exc = "") or throw (exc in Errors), utils.rs 85-111.
Enter(t, c, exc) ==
    /\ panicked = ""
    /\ c \in DOMAIN coros
    /\ Holds(t)
    /\ inflight[t].c = 0
    /\ TryBorrowMut(c)
    /\ coros[c].steps < MaxSteps
    /\ LET co   == [coros[c] EXCEPT !.steps = @ + 1, !.inj = exc,
                                    !.early = FALSE, !.lastPoll = ""]
           eff  == EffectiveExc(co, exc)
           what == ThrowDispatch(eff, co.throw)
           uniq == WakerUnique(co)
           herr == IF uniq THEN UpdateError(Backend("update", wakers[co.waker]))
                   ELSE NewError
           fails == herr # ""
           w    == IF uniq THEN co.waker ELSE NewSlot
           co2  == [co EXCEPT !.waker = w]
           empty == /\ co.future # "none" /\ what # "drop" /\ ~fails
                    /\ IsFetch(co.future) /\ ~HandleBorrowed /\ HandleEmpty
           flies == /\ co.future # "none" /\ what # "drop" /\ ~fails
                    /\ ~(IsFetch(co.future) /\ (HandleBorrowed \/ HandleEmpty))
           \* coroutine.rs 86: raise is called when no error was passed in
           wakersR == IF exc = "" /\ co.waker # 0
                      THEN [wakers EXCEPT ![co.waker] =
                              Logged(@, "raise", Backend("raise", @), t)]
                      ELSE wakers
       IN
       /\ UNCHANGED <<att, stream, rt, ids, fw, agw>>
       /\ gen' = IF empty THEN [gen EXCEPT !.sawEmpty = TRUE]
                 ELSE IF flies /\ IsFetch(co.future) THEN [gen EXCEPT !.lock = t]
                 ELSE gen
       \* lib.rs 35 and 66: the poll runs inside Python::allow_threads
       /\ gil' = IF flies THEN "-" ELSE gil
       /\ IF co.future = "none"
          THEN /\ coros' = [coros EXCEPT ![c] = [co EXCEPT !.out = Raise(ReuseError)]]
               /\ UNCHANGED <<wakers, inflight, fut, panicked>>
          ELSE IF what = "drop"
          THEN /\ coros' = [coros EXCEPT ![c] =
                              [co EXCEPT !.future = FutureAfterThrow(co.future),
                                         !.out = Raise(eff),
                                         !.res = Raise(eff), !.term = "thrown"]]
               /\ wakers' = wakersR
               /\ UNCHANGED <<inflight, fut, panicked>>
          ELSE /\ fut' = IF what = "callback" /\ CallbackReached(fails)
                         THEN Callback(fut, eff) ELSE fut
               /\ IF fails
                  THEN \* coroutine.rs 96 and 99: `?` returns the error
                       /\ coros' = [coros EXCEPT ![c] =
                              [co EXCEPT !.out = Raise(herr),
                                         !.future = FutureAfterHostError(@)]]
                       /\ wakers' = wakersR
                       /\ UNCHANGED <<inflight, panicked>>
                  ELSE \* coroutine.rs 95-102: Waker::update, or a new Waker
                       /\ wakers' =
                            IF uniq
                            THEN [wakersR EXCEPT ![w] =
                                    WakerUpdate(Backend("update", @), @, t)]
                            ELSE IF w > Len(wakers)
                            THEN Append(wakersR, NewWaker(t))
                            ELSE [wakersR EXCEPT ![w] = NewWaker(t)]
                       /\ IF IsFetch(co.future) /\ HandleBorrowed
                          THEN \* async_generator.rs 24: borrow_mut panics
                               /\ panicked' = "StreamNext.borrow_mut"
                               /\ coros' = [coros EXCEPT ![c] = co2]
                               /\ UNCHANGED inflight
                          ELSE IF IsFetch(co.future) /\ HandleEmpty
                          THEN \* async_generator.rs 25-27: Ready at once
                               /\ coros' = [coros EXCEPT ![c] =
                                      Resolve([co2 EXCEPT !.polls = @ + 1],
                                              Raise(StopAsyncIteration))]
                               /\ UNCHANGED <<inflight, panicked>>
                          ELSE /\ coros' = [coros EXCEPT ![c] = co2]
                               /\ inflight' = [inflight EXCEPT ![t] =
                                      [c |-> c, m |-> "poll", w |-> w,
                                       woken |-> FALSE]]
                               /\ UNCHANGED panicked

\* A call that finds the coroutine already mutably borrowed raises
\* PyBorrowMutError and never reaches the engine.
Rejected(t, c) ==
    /\ panicked = ""
    /\ c \in DOMAIN coros
    /\ inflight[t].c = 0
    /\ ~TryBorrowMut(c)
    /\ att' = [att EXCEPT ![t] = TRUE]
    /\ UNCHANGED <<coros, wakers, inflight, fut, gen, stream, panicked, rt, ids, fw, agw, gil>>

\* Exit of Coroutine::poll (coroutine.rs 107-113): the poll has returned.
Exit(t) ==
    /\ panicked = ""
    /\ inflight[t].c # 0
    /\ inflight[t].m = "poll"
    /\ Holds(t)
    /\ LET c  == inflight[t].c
           co == [coros[c] EXCEPT !.polls = @ + 1, !.early = inflight[t].woken]
           w  == co.waker
           b  == Backend("yield_", wakers[w])
       IN
       /\ inflight' = [inflight EXCEPT ![t] = NoFlight]
       /\ PollEffect(co)
       /\ coros' = [coros EXCEPT ![c] =
             IF PollOf(co).p = "ready"
             THEN Resolve(co, PollOf(co).out)
             ELSE [co EXCEPT !.lastPoll = "pending",
                             !.out = IF WakerYield(b, wakers[w].fut) = ""
                                     THEN Yield(w)
                                     ELSE Raise(WakerYield(b, wakers[w].fut)),
                             !.future = IF WakerYield(b, wakers[w].fut) = ""
                                        THEN @ ELSE FutureAfterHostError(@)]]
       /\ wakers' = IF PollOf(co).p = "ready" THEN wakers
                    ELSE [wakers EXCEPT ![w] = Logged(@, "yield_", b, t)]
       /\ UNCHANGED <<att, panicked, rt, ids, fw, agw, gil>>

\* ---------------------------------------------------------------- close
CloseFinds_Always(future) == TRUE

\* coroutine.rs 59: `if let Some(mut future_rs) = self.future.take()`
CloseFinds(future) == future # "none"

CloseDispatch_AlwaysDrain(throw) == "drain"

\* coroutine.rs 60: the callback and the drain poll are under
\* `if let Some(ref mut throw)`; without callback the future is only dropped.
CloseDispatch(throw) == IF throw THEN "drain" ELSE "drop"

\* Coroutine::close (coroutine.rs 58-72), up to the drain poll: the future is
\* taken first; with a throw-callback it is called with None and the future
\* is polled once with a no-op waker (GIL released during that poll).
CloseEnter(t, c) ==
    /\ panicked = ""
    /\ c \in DOMAIN coros
    /\ inflight[t].c = 0
    /\ TryBorrowMut(c)
    /\ Holds(t)
    /\ UNCHANGED <<att, gen, stream, rt, ids, fw, agw>>
    /\ gil' = IF CloseFinds(coros[c].future) /\ CloseDispatch(coros[c].throw) = "drain"
              THEN "-" ELSE gil
    /\ LET co == coros[c] IN
       IF ~CloseFinds(co.future)
       THEN /\ coros' = [coros EXCEPT ![c] = [co EXCEPT !.cout = "ok"]]
            /\ UNCHANGED <<wakers, inflight, fut, panicked>>
       ELSE IF CloseDispatch(co.throw) = "drop"
       THEN /\ coros' = [coros EXCEPT ![c] =
                           [co EXCEPT !.future = FutureAfterClose(co.future),
                                      !.term = "closed", !.cout = "ok"]]
            /\ UNCHANGED <<wakers, inflight, fut, panicked>>
       ELSE /\ coros' = [coros EXCEPT ![c] =
                           [co EXCEPT !.future = FutureAfterClose(co.future),
                                      !.term = "closed", !.cout = "-"]]
            /\ fut' = Callback(fut, "None")
            /\ inflight' = [inflight EXCEPT ![t] =
                              [c |-> c, m |-> "drain", w |-> 0, woken |-> FALSE]]
            /\ UNCHANGED <<wakers, panicked>>

\* coroutine.rs 63-71: the drain poll has returned; only Ready(Err) is reported.
CloseExit(t) ==
    /\ panicked = ""
    /\ inflight[t].c # 0
    /\ inflight[t].m = "drain"
    /\ Holds(t)
    /\ LET c == inflight[t].c IN
       /\ coros' = [coros EXCEPT ![c] =
              [@ EXCEPT !.polls = @ + 1,
                        !.cout = IF PollUser(fut) = "ready" /\ fut.final = "err"
                                 THEN "err" ELSE "ok"]]
       /\ fut' = IF PollUser(fut) = "pending" THEN [fut EXCEPT !.pend = @ - 1] ELSE fut
    /\ inflight' = [inflight EXCEPT ![t] = NoFlight]
    /\ UNCHANGED <<wakers, att, gen, stream, panicked, rt, ids, fw, agw, gil>>

\* ---------------------------------------------------------------- wakes
\* A Waker is an Arc: `held` says that clones of it are stored outside the
\* coroutine (by the future or the executor), `sched` that set_result
\* callbacks are queued on its loop by call_soon_threadsafe.
IsCurrent(w) == \E c \in DOMAIN coros : coros[c].waker = w

Released(w) ==
    IF IsCurrent(w) THEN [wakers[w] EXCEPT !.held = FALSE] ELSE FreedWaker

\* The polled future stores a clone of cx.waker() (an Arc clone of the Waker).
FutClone(t) ==
    /\ panicked = ""
    /\ inflight[t].m = "poll"
    /\ ~wakers[inflight[t].w].held
    /\ wakers' = [wakers EXCEPT ![inflight[t].w] = [@ EXCEPT !.held = TRUE]]
    /\ UNCHANGED <<coros, inflight, att, fut, gen, stream, panicked, rt, ids, fw, agw, gil>>

\* The polled stream keeps one waker, that of its latest poll: storing the
\* clone of cx.waker() drops the clone stored before.  A poll stores its
\* waker before it wakes it.
StoreWaker(t) ==
    /\ panicked = ""
    /\ inflight[t].m = "poll"
    /\ IsFetch(coros[inflight[t].c].future)
    /\ ~inflight[t].woken
    /\ ~wakers[inflight[t].w].held
    /\ wakers' = [w \in DOMAIN wakers |->
                     IF w = inflight[t].w THEN [wakers[w] EXCEPT !.held = TRUE]
                     ELSE IF wakers[w].held THEN Released(w)
                     ELSE wakers[w]]
    /\ UNCHANGED <<coros, inflight, att, fut, gen, stream, panicked, rt, ids, fw, agw, gil>>

\* The stored clones are dropped without being used.
DropClone(w) ==
    /\ panicked = ""
    /\ w \in DOMAIN wakers
    /\ wakers[w].held
    /\ wakers' = [wakers EXCEPT ![w] = Released(w)]
    /\ UNCHANGED <<coros, inflight, att, fut, gen, stream, panicked, rt, ids, fw, agw, gil>>

\* Thread t can reach a wake handle of waker w: a stored clone, or cx.waker()
\* of the poll it is inside of.
HasHandle(t, w) ==
    \/ wakers[w].held
    \/ t \in HostThreads /\ inflight[t].m = "poll" /\ inflight[t].w = w

IsLocalWake_AnyHost(t, w) == t \in HostThreads

\* coroutine.rs 35: current_thread_id() == arc_self.thread_id
IsLocalWake(t, w) == t = wakers[w].thread

\* The polls in progress whose context carries waker w learn of the wake.
MarkWoken(w) ==
    [t \in HostThreads |->
        IF inflight[t].m = "poll" /\ inflight[t].w = w
        THEN [inflight[t] EXCEPT !.woken = TRUE] ELSE inflight[t]]

\* ArcWake::wake_by_ref (coroutine.rs 33-41) from thread t; `consume` is
\* Waker::wake(self), which drops the stored clone after waking.
\* Local: Waker::wake (asyncio.rs 45-49), Future.set_result(None).expect(..).
\* Other thread: Waker::wake_threadsafe (asyncio.rs 51-59),
\* loop.call_soon_threadsafe(future.set_result, None).
Wake(t, w, consume) ==
    /\ panicked = ""
    /\ w \in DOMAIN wakers
    /\ HasHandle(t, w)
    /\ consume => wakers[w].held
    /\ t \in HostThreads /\ inflight[t].c # 0 => inflight[t].m = "poll"
    /\ WithGil(t)
    /\ LET op   == IF IsLocalWake(t, w) THEN "wake" ELSE "wake_threadsafe"
           b    == Backend(op, wakers[w])
           wk   == Logged(wakers[w], op, b, t)
           woke == IF op = "wake"
                   THEN [wk EXCEPT !.fut = "done"]
                   ELSE [wk EXCEPT !.sched = TRUE]
       IN
       IF op = "wake" /\ SetResultFails(wakers[w].fut)
       THEN /\ panicked' = WakePanic(b)
            /\ UNCHANGED <<wakers, inflight>>
       ELSE /\ wakers' = [wakers EXCEPT ![w] =
                  IF ~consume THEN woke
                  ELSE IF IsCurrent(w) THEN [woke EXCEPT !.held = FALSE]
                  ELSE FreedWaker]
            /\ inflight' = MarkWoken(w)
            /\ UNCHANGED panicked
    /\ UNCHANGED <<coros, att, fut, gen, stream, rt, ids, fw, agw, gil>>

\* The event loop of the waker's thread runs the queued set_result callbacks;
\* an InvalidStateError raised there goes to the loop's exception handler.
LoopRun(w) ==
    /\ panicked = ""
    /\ w \in DOMAIN wakers
    /\ wakers[w].sched
    /\ inflight[wakers[w].thread].c = 0
    /\ Holds(wakers[w].thread)
    /\ wakers' = [wakers EXCEPT ![w] =
                     [@ EXCEPT !.sched = FALSE,
                               !.fut = IF @ = "pending" THEN "done" ELSE @]]
    /\ UNCHANGED <<coros, inflight, att, fut, gen, stream, panicked, rt, ids, fw, agw, gil>>

\* ------------------------------------------------------ AsyncGenerator
\* Besides its fields (son: the StreamOrNext variant, slot: StreamNext.0 is
\* Some, throw: it has a throw-callback, cbArg: the callback's latest
\* argument) the generator's record keeps what the host did with it:
\*   n        coroutines handed out so far
\*   alt      every call so far found all earlier coroutines resolved
\*   pure     only next() was called and no fetch ended by an injected error
\*   done     fetches resolved so far, counted while alt and pure hold
\*   last     what the latest of them resolved to
\*   ended    a fetch has observed the end of the stream
\*   sawEmpty a fetch has found the handle empty
\* and lock is the thread whose poll_py holds the handle's RefMut, or "-".

\* Every coroutine the host holds has resolved.
AllResolved ==
    \A c \in DOMAIN coros : coros[c].res # NoOut \/ coros[c].term = "closed"

Counted(g) ==
    IF g.alt /\ g.pure THEN g ELSE [g EXCEPT !.done = 0, !.last = NoOut]

\* The host drops a coroutine that has resolved (its reference count reaches
\* zero when the await completes): the Coroutine goes, and its Arc<Waker>
\* with it unless a clone is still stored.
Drop(c) ==
    /\ panicked = ""
    /\ c \in DOMAIN coros
    /\ \A t \in HostThreads : inflight[t].c = 0
    /\ coros[c].future = "none"
    /\ coros' = SubSeq(coros, 1, c - 1) \o SubSeq(coros, c + 1, Len(coros))
    /\ wakers' = [w \in DOMAIN wakers |->
                     IF w = coros[c].waker /\ ~wakers[w].held
                     THEN FreedWaker ELSE wakers[w]]
    /\ gen' = Counted([gen EXCEPT
                  !.pure = @ /\ coros[c].term \notin {"thrown", "closed"},
                  !.done = @ + 1,
                  !.last = coros[c].res])
    /\ UNCHANGED <<inflight, att, fut, stream, panicked, rt, ids, fw, agw, gil>>

\* Coroutine::from_future(future) (utils.rs 80-82): a new coroutine without
\* throw-callback, returned to the host.
Handout(future, arg) ==
    /\ panicked = ""
    /\ \A t \in HostThreads : inflight[t].c = 0
    /\ gen.n < MaxFetch
    /\ Cardinality({c \in DOMAIN coros : coros[c].future # "none"}) < MaxLive
    /\ coros' = Append(coros, NewCoroutine(future, FALSE, arg))
    /\ UNCHANGED <<wakers, inflight, att, fut, stream, panicked, rt, ids, fw, agw, gil>>

\* AsyncGenerator::_next (async_generator.rs 84-87): StreamOrNext::next moves
\* the stream into the shared handle on first use; the handle is cloned into
\* a PyStreamNext wrapped by Coroutine::from_future.
\* `called` is the argument of the throw-callback's call made before it, or
\* "" when there was none; with tracing on the calls are recorded, and the
\* coroutine handed out after a call with an error keeps that error in arg.
GenFetch(future, called, pure) ==
    /\ Handout(future, IF rt.trace /\ called \in Errors THEN called ELSE "")
    /\ gen' = Counted([gen EXCEPT !.son = "Next",
                                  !.cbArg = IF called = "" THEN @ ELSE called,
                                  !.calls = IF rt.trace /\ called # ""
                                            THEN Append(@, called) ELSE @,
                                  !.n = @ + 1,
                                  !.alt = @ /\ AllResolved,
                                  !.pure = @ /\ pure])

\* AsyncGenerator::next (async_generator.rs 89-91): asend / __anext__.
GenNext == GenFetch("fetch", "", TRUE)

GenThrow_Fetch(exc) == GenFetch("fetch", exc, FALSE)

GenThrow_Raise(exc) ==
    /\ Handout("raise", exc)
    /\ gen' = Counted([gen EXCEPT !.n = @ + 1, !.alt = @ /\ AllResolved,
                                  !.pure = FALSE])

\* AsyncGenerator::throw (async_generator.rs 93-99): athrow.
GenThrow(exc) ==
    IF gen.throw
    THEN GenFetch("fetch", exc, FALSE)
    ELSE /\ Handout("raise", exc)
         /\ gen' = Counted([gen EXCEPT !.n = @ + 1, !.alt = @ /\ AllResolved,
                                       !.pure = FALSE])

\* AsyncGenerator::close (async_generator.rs 101-106): aclose.
GenClose == GenFetch("fetchclose", IF gen.throw THEN "None" ELSE "", FALSE)

\* ---------------------------------------------------------------- specs
NoGen    == [son |-> "-", slot |-> FALSE, throw |-> FALSE, cbArg |-> "-",
             calls |-> <<>>,
             n |-> 0, alt |-> TRUE, pure |-> TRUE, done |-> 0, last |-> NoOut,
             ended |-> FALSE, sawEmpty |-> FALSE, lock |-> "-"]
NoStream == [pos |-> 0, pend |-> 0, late |-> 0]
NoFuture == [pend |-> 0, final |-> "ok", conv |-> FALSE, cbArg |-> "-",
                 calls |-> <<>>]

\* asyncio::Coroutine and asyncio::AsyncGenerator under a running asyncio loop.
AsyncioRt == [W |-> "asyncio", lib |-> "asyncio", trace |-> FALSE]

\* One Coroutine wrapping a user future.
Init ==
    /\ \E throw \in BOOLEAN : coros = <<NewCoroutine("user", throw, "")>>
    /\ wakers = <<>>
    /\ inflight = [t \in HostThreads |-> NoFlight]
    /\ att = [t \in HostThreads |-> FALSE]
    /\ \E p \in 0..MaxPending, fin \in {"ok", "err"}, conv \in BOOLEAN :
          /\ conv => coros[1].throw
          /\ fut = [pend |-> p, final |-> fin, conv |-> conv, cbArg |-> "-",
                 calls |-> <<>>]
    /\ gen = NoGen
    /\ stream = NoStream
    /\ panicked = ""
    /\ rt = AsyncioRt
    /\ ids = NoIds
    /\ fw = NoFw
    /\ agw = NoAgw
    /\ gil = "-"

\* One host thread drives the coroutine; the executor thread wakes.
Next ==
    \/ \E c \in DOMAIN coros, exc \in Errors \cup {""} : Enter(Loop, c, exc)
    \/ Exit(Loop)
    \/ \E c \in DOMAIN coros : CloseEnter(Loop, c)
    \/ CloseExit(Loop)
    \/ FutClone(Loop)
    \/ \E w \in DOMAIN wakers : DropClone(w)
    \/ \E t \in {Loop, Exec}, w \in DOMAIN wakers, consume \in BOOLEAN : Wake(t, w, consume)
    \/ \E w \in DOMAIN wakers : LoopRun(w)

Spec == Init /\ [][Next]_vars

\* Two host threads call the methods of the same coroutine and wake it; the
\* throw-callback, if any, converts nothing.
InitThreads == Init /\ ~fut.conv

NextThreads ==
    \/ \E t \in HostThreads, c \in DOMAIN coros, exc \in {"", "E1"} : Enter(t, c, exc)
    \/ \E t \in HostThreads, c \in DOMAIN coros : Rejected(t, c)
    \/ \E t \in HostThreads : Exit(t)
    \/ \E t \in HostThreads, c \in DOMAIN coros : CloseEnter(t, c)
    \/ \E t \in HostThreads : CloseExit(t)
    \/ \E t \in HostThreads : FutClone(t)
    \/ \E w \in DOMAIN wakers : DropClone(w)
    \/ \E t \in HostThreads, w \in DOMAIN wakers, consume \in BOOLEAN : Wake(t, w, consume)
    \/ \E w \in DOMAIN wakers : LoopRun(w)

SpecThreads == InitThreads /\ [][NextThreads]_vars

\* The host only throws: every step carries an injected error, the wrapped
\* future has a converting throw-callback, and the awaitable of each yield is
\* woken once.
InitThrow == Init /\ coros[1].throw /\ fut.conv

Suspended(c) ==
    coros[c].out.k = "yield" /\ coros[c].future # "none" /\ ~Borrowed(c)

ThrowStep == \E c \in DOMAIN coros, exc \in Errors : Enter(Loop, c, exc)

WakeAfterYield ==
    \E t \in {Loop, Exec}, c \in DOMAIN coros, consume \in BOOLEAN :
        /\ Suspended(c)
        /\ wakers[coros[c].waker].fut = "pending"
        /\ ~wakers[coros[c].waker].sched
        /\ Wake(t, coros[c].waker, consume)

NextThrow ==
    \/ ThrowStep
    \/ Exit(Loop)
    \/ FutClone(Loop)
    \/ WakeAfterYield
    \/ \E w \in DOMAIN wakers : LoopRun(w)

SpecThrow == InitThrow /\ [][NextThrow]_vars /\ WF_vars(ThrowStep) /\ WF_vars(Exit(Loop))

\* One AsyncGenerator over a stream of NItems items, driven by one host
\* thread through asend / athrow / aclose and the coroutines they return.
InitGen ==
    /\ coros = <<>>
    /\ wakers = <<>>
    /\ inflight = [t \in HostThreads |-> NoFlight]
    /\ att = [t \in HostThreads |-> FALSE]
    /\ fut = NoFuture
    /\ \E throw \in BOOLEAN :
          gen = [NoGen EXCEPT !.son = "Stream", !.slot = TRUE, !.throw = throw]
    /\ \E p \in 0..MaxPending : stream = [pos |-> 0, pend |-> p, late |-> 0]
    /\ panicked = ""
    /\ rt = AsyncioRt
    /\ ids = NoIds
    /\ fw = NoFw
    /\ agw = NoAgw
    /\ gil = "-"

\* The host steps the coroutines that still hold their future and drops a
\* coroutine as soon as it has resolved; the stream stores the waker of the
\* poll and wakes it, during the poll or later.
Live(c) == coros[c].future # "none"

Tidy == \A c \in DOMAIN coros : Live(c)

NextGen ==
    \/ Tidy /\ GenNext
    \/ Tidy /\ GenThrow("E1")
    \/ Tidy /\ GenClose
    \/ \E c \in DOMAIN coros : Tidy /\ Live(c) /\ Enter(Loop, c, "")
    \/ Exit(Loop)
    \/ \E c \in DOMAIN coros : Drop(c)
    \/ Tidy /\ StoreWaker(Loop)
    \/ \E w \in DOMAIN wakers : Tidy /\ Wake(Loop, w, TRUE)

SpecGen == InitGen /\ [][NextGen]_vars

\* The host awaits one coroutine the way an event loop does: send(None) first,
\* then again each time the awaitable of the latest yield is done; the future
\* is Pending up to MaxYields times and its waker is woken once after each.
InitWake ==
    /\ \E throw \in BOOLEAN : coros = <<NewCoroutine("user", throw, "")>>
    /\ wakers = <<>>
    /\ inflight = [t \in HostThreads |-> NoFlight]
    /\ att = [t \in HostThreads |-> FALSE]
    /\ \E p \in 0..MaxYields, fin \in {"ok", "err"} :
          fut = [pend |-> p, final |-> fin, conv |-> FALSE, cbArg |-> "-",
                 calls |-> <<>>]
    /\ gen = NoGen
    /\ stream = NoStream
    /\ panicked = ""
    /\ rt = AsyncioRt
    /\ ids = NoIds
    /\ fw = NoFw
    /\ agw = NoAgw
    /\ gil = "-"

StepWhenDone ==
    \E c \in DOMAIN coros :
        /\ coros[c].future # "none"
        /\ coros[c].waker # 0 => wakers[coros[c].waker].fut = "done"
        /\ Enter(Loop, c, "")

NextWake ==
    \/ StepWhenDone
    \/ Exit(Loop)
    \/ FutClone(Loop)
    \/ WakeAfterYield
    \/ \E w \in DOMAIN wakers : LoopRun(w)

SpecWake == InitWake /\ [][NextWake]_vars

\* One sniffio::Coroutine, awaited as in SpecWake (send, or throw with E1,
\* each time the latest awaitable is done) under a host whose
\* sniffio.current_async_library() reports asyncio, trio, or a library the
\* crate does not know; the backend's operations are recorded.
Libs == Backends \cup {"curio"}

InitSniffio ==
    /\ \E throw \in BOOLEAN : coros = <<NewCoroutine("user", throw, "")>>
    /\ wakers = <<>>
    /\ inflight = [t \in HostThreads |-> NoFlight]
    /\ att = [t \in HostThreads |-> FALSE]
    /\ \E p \in 0..MaxYields, fin \in {"ok", "err"} :
          fut = [pend |-> p, final |-> fin, conv |-> FALSE, cbArg |-> "-",
                 calls |-> <<>>]
    /\ gen = NoGen
    /\ stream = NoStream
    /\ panicked = ""
    /\ \E lib \in Libs : rt = [W |-> "sniffio", lib |-> lib, trace |-> TRUE]
    /\ ids = NoIds
    /\ fw = NoFw
    /\ agw = NoAgw
    /\ gil = "-"

ThrowWhenDone ==
    \E c \in DOMAIN coros :
        /\ coros[c].future # "none"
        /\ coros[c].waker # 0 => wakers[coros[c].waker].fut = "done"
        /\ Enter(Loop, c, "E1")

NextSniffio ==
    \/ StepWhenDone
    \/ ThrowWhenDone
    \/ Exit(Loop)
    \/ FutClone(Loop)
    \/ WakeAfterYield
    \/ \E w \in DOMAIN wakers : LoopRun(w)

SpecSniffio == InitSniffio /\ [][NextSniffio]_vars

\* A host thread takes the GIL to run Python code, and gives it up.
HostAcquire(t) ==
    /\ panicked = ""
    /\ gil = "-"
    /\ inflight[t].c = 0
    /\ gil' = t
    /\ UNCHANGED <<coros, wakers, inflight, att, fut, gen, stream, panicked, rt, ids, fw, agw>>

HostRelease(t) ==
    /\ panicked = ""
    /\ gil = t
    /\ gil' = "-"
    /\ UNCHANGED <<coros, wakers, inflight, att, fut, gen, stream, panicked, rt, ids, fw, agw>>

\* Host thread t steps a coroutine with send, the first time or once the
\* awaitable of its latest yield is done.
AwaitStep(t) ==
    \E c \in DOMAIN coros :
        /\ coros[c].future # "none"
        /\ coros[c].waker # 0 => wakers[coros[c].waker].fut = "done"
        /\ Enter(t, c, "")

\* Thread t wakes the waker of a suspended coroutine that was not woken yet.
WakeOnce(t) ==
    \E c \in DOMAIN coros, consume \in BOOLEAN :
        /\ Suspended(c)
        /\ wakers[coros[c].waker].fut = "pending"
        /\ ~wakers[coros[c].waker].sched
        /\ Wake(t, coros[c].waker, consume)

\* Thread t wakes the waker of a poll in progress, not woken yet.
WakeInPoll(t) ==
    \E h \in HostThreads :
        /\ inflight[h].m = "poll"
        /\ wakers[inflight[h].w].fut = "pending"
        /\ ~wakers[inflight[h].w].sched
        /\ Wake(t, inflight[h].w, FALSE)

\* One coroutine of the asyncio or the trio backend, awaited by two host
\* threads that take and give up the GIL, and woken once for each poll,
\* during it or after its yield, by one of them or by an executor thread; the
\* backend's operations are recorded.
InitHosts ==
    /\ coros = <<NewCoroutine("user", FALSE, "")>>
    /\ wakers = <<>>
    /\ inflight = [t \in HostThreads |-> NoFlight]
    /\ att = [t \in HostThreads |-> FALSE]
    /\ \E p \in 0..MaxYields :
          fut = [pend |-> p, final |-> "ok", conv |-> FALSE, cbArg |-> "-",
                 calls |-> <<>>]
    /\ gen = NoGen
    /\ stream = NoStream
    /\ panicked = ""
    /\ \E W \in Backends : rt = [W |-> W, lib |-> W, trace |-> TRUE]
    /\ ids = NoIds
    /\ fw = NoFw
    /\ agw = NoAgw
    /\ gil = "-"

NextHosts ==
    \/ \E t \in HostThreads : AwaitStep(t)
    \/ \E t \in HostThreads : Exit(t)
    \/ \E t \in HostThreads : FutClone(t)
    \/ \E t \in Threads : WakeOnce(t)
    \/ \E t \in Threads : WakeInPoll(t)
    \/ \E w \in DOMAIN wakers : LoopRun(w)
    \/ \E t \in HostThreads : HostAcquire(t)
    \/ \E t \in HostThreads : HostRelease(t)

SpecHosts == InitHosts /\ [][NextHosts]_vars

\* One AsyncGenerator used in alternation (a coroutine is asked for once the
\* one before has resolved and was dropped) by the loop thread, next() or
\* close(), while a second host thread takes and gives up the GIL and every
\* thread may wake the stream's waker, once for each poll, during or after it.
NextLock ==
    \/ coros = <<>> /\ GenNext
    \/ coros = <<>> /\ GenClose
    \/ AwaitStep(Loop)
    \/ Exit(Loop)
    \/ \E c \in DOMAIN coros : Drop(c)
    \/ StoreWaker(Loop)
    \/ \E t \in Threads : WakeOnce(t)
    \/ \E t \in Threads : WakeInPoll(t)
    \/ \E w \in DOMAIN wakers : LoopRun(w)
    \/ HostAcquire(Host2)
    \/ HostRelease(Host2)

SpecLock == InitGen /\ [][NextLock]_vars

\* ================================================================ claims

\* C1: once a step has returned Return(v), the wrapped future is never polled
\* again and every later step fails with the reuse error.
C1_NoDoublePoll ==
    [][\A c \in DOMAIN coros :
          coros[c].term = "returned" =>
              /\ coros'[c].polls = coros[c].polls
              /\ (coros'[c].steps # coros[c].steps =>
                      coros'[c].out = Raise(ReuseError))]_vars

C1_Witness ==
    \E c \in DOMAIN coros :
        coros[c].term = "returned" /\ coros[c].out = Raise(ReuseError)

\* C2: after close() on a coroutine that held its future the future is gone
\* and every later step fails with the reuse error without polling, whether
\* close returned Ok or the error of its drain poll; a drain poll that is
\* Ready(Err) is reported by close.
C2_CloseDrops ==
    [][\A c \in DOMAIN coros :
          coros[c].term = "closed" =>
              /\ coros[c].future = "none" /\ coros'[c].future = "none"
              /\ (coros'[c].steps # coros[c].steps =>
                      /\ coros'[c].out = Raise(ReuseError)
                      /\ coros'[c].polls = coros[c].polls)
              /\ (coros[c].cout = "-" /\ coros'[c].cout # "-" =>
                      (coros'[c].cout = "err") = (fut.pend = 0 /\ fut.final = "err"))]_vars

C2_Witness ==
    \E c \in DOMAIN coros :
        /\ coros[c].term = "closed" /\ coros[c].cout = "err"
        /\ coros[c].out = Raise(ReuseError)

\* C3: a step of a live coroutine without throw-callback, taken with an
\* injected error e, fails with exactly e, polls nothing, and drops the
\* future: later steps fail with the reuse error.
C3_ThrowWithoutCallback ==
    [][\A c \in DOMAIN coros :
          /\ (/\ coros'[c].steps = coros[c].steps + 1
              /\ coros[c].future # "none" /\ ~coros[c].throw
              /\ coros'[c].inj # "")
             => /\ coros'[c].out = Raise(coros'[c].inj)
                /\ coros'[c].polls = coros[c].polls
                /\ coros'[c].future = "none"
                /\ \A t \in HostThreads : inflight'[t].c # c
          /\ (coros[c].term = "thrown" =>
                /\ coros'[c].polls = coros[c].polls
                /\ (coros'[c].steps # coros[c].steps =>
                        coros'[c].out = Raise(ReuseError)))]_vars

C3_Witness ==
    \E c \in DOMAIN coros :
        /\ coros[c].term = "thrown" /\ coros[c].inj \in Errors
        /\ coros[c].out = Raise(coros[c].inj) /\ coros[c].polls = 0

\* C4: no wake call between two steps of a suspended coroutine fails or
\* panics, however many wakes there are and whichever thread makes them.
C4_WakesIdempotent ==
    \A c \in DOMAIN coros : Suspended(c) => panicked # "Future.set_result"

\* C5: a wake made during a poll that then returns Pending does not keep the
\* step from yielding an awaitable.
C5_EarlyWakeStillYields ==
    \A c \in DOMAIN coros :
        coros[c].early /\ coros[c].lastPoll = "pending" => coros[c].out.k = "yield"

\* C6: with a throw-callback that converts every injected error into a value,
\* no step raises the error injected into it, and under steps that all carry
\* an injected error the coroutine eventually returns the converted value.
C6_ThrowCooperative ==
    /\ [](\A c \in DOMAIN coros :
            coros[c].inj # "" => coros[c].out # Raise(coros[c].inj))
    /\ <>(\E c \in DOMAIN coros : coros[c].out = Return(FutValue("conv")))

C6_Witness ==
    \E c \in DOMAIN coros :
        /\ coros[c].inj \in Errors /\ coros[c].polls > 1
        /\ coros[c].out = Return(FutValue("conv"))

\* C7: under alternating use (every coroutine handed out has resolved before
\* the next call) of next() alone, on a stream producing Items then ending,
\* the k-th fetch that runs to its resolution returns the k-th item for
\* k = 1..NItems, and the fetches after them raise StopAsyncIteration.
C7_OrderedFetches ==
    gen.alt /\ gen.pure /\ gen.done >= 1 =>
        gen.last = IF gen.done <= NItems THEN Return(Items[gen.done])
                   ELSE Raise(StopAsyncIteration)

C7_Witness ==
    /\ gen.alt /\ gen.pure /\ gen.done = NItems + 1
    /\ gen.last = Raise(StopAsyncIteration)

\* C8: once a fetch has observed the end of the stream the shared handle is
\* cleared and stays so, the stream is not polled again, and every step of a
\* fetch coroutine that still holds its future, taken without an effective
\* injected error, raises StopAsyncIteration at once.
C8_StickyExhaustion ==
    [][gen.ended =>
          /\ ~gen.slot /\ ~gen'.slot
          /\ stream' = stream /\ stream.late = 0
          /\ \A c \in DOMAIN coros :
                (/\ Len(coros') >= Len(coros)
                 /\ IsFetch(coros[c].future)
                 /\ coros'[c].steps = coros[c].steps + 1
                 /\ coros'[c].term # "thrown")
                => /\ coros'[c].out = Raise(StopAsyncIteration)
                   /\ inflight' = inflight]_vars

C8_Witness ==
    /\ gen.ended /\ gen.sawEmpty
    /\ \E c \in DOMAIN coros :
          IsFetch(coros[c].kind) /\ coros[c].out = Raise(StopAsyncIteration)

\* C9 (as stated): for every sequence of asend / athrow / aclose calls and
\* steps there are never two unresolved fetch coroutines that have each
\* polled the stream.
Fetching ==
    {c \in DOMAIN coros :
        IsFetch(coros[c].kind) /\ coros[c].future # "none" /\ coros[c].polls >= 1}

C9_Original == Cardinality(Fetching) <= 1

\* C9 (amended): under alternating use (every coroutine handed out has
\* resolved before the next call) there are never two fetch coroutines that
\* still hold their fetch and have each polled the stream.
C9_SingleFetchAlternating == gen.alt => Cardinality(Fetching) <= 1

C9_Witness ==
    /\ gen.alt /\ gen.n >= 2 /\ gen.done >= 1
    /\ \E c \in Fetching : coros[c].out.k = "yield"

\* C10: no two host threads are ever inside a step or close of the same
\* coroutine; the second caller is refused while the first is in its poll.
C10_SingleFlight ==
    \A t1, t2 \in HostThreads :
        t1 # t2 /\ inflight[t1].c # 0 => inflight[t2].c # inflight[t1].c

C10_Witness ==
    \E t1, t2 \in HostThreads :
        /\ t1 # t2 /\ att[t2]
        /\ inflight[t1].c # 0 /\ inflight[t1].m = "poll"

\* C11: with a throw-callback on the generator, the poll that gives a close
\* fetch its first Ready outcome takes at most one item from the stream (one
\* item, or none when it is the end) and leaves the shared handle cleared;
\* once the handle is cleared it stays so and the stream is not polled again
\* by any fetch.
C11_CloseDrainsOnce ==
    [][/\ \A c \in DOMAIN coros :
            (/\ gen.throw /\ gen.slot
             /\ Len(coros') = Len(coros)
             /\ coros[c].future = "fetchclose"
             /\ coros'[c].lastPoll = "ready")
            => /\ ~gen'.slot
               /\ coros'[c].polls = coros[c].polls + 1
               /\ stream'.pos = stream.pos + (IF coros'[c].res.k = "return" THEN 1 ELSE 0)
               /\ coros'[c].res \in {Return(Items[stream'.pos]), Raise(StopAsyncIteration)}
       /\ (gen.son = "Next" /\ ~gen.slot => ~gen'.slot /\ stream' = stream)]_vars

C11_Witness ==
    /\ gen.throw /\ gen.cbArg = "None"
    /\ ~gen.slot /\ ~gen.ended /\ stream.pos = 1
    /\ gen.sawEmpty

\* C12: on a generator without throw-callback, no step of the coroutine that
\* aclose returns polls the stream: the stream is left as it was.
C12_CloseWithoutCallbackDrops ==
    [][\A c \in DOMAIN coros :
          (~gen.throw /\ coros[c].kind = "fetchclose" /\ inflight[Loop].c = c)
          => stream' = stream]_vars

C14_YieldIffPending ==
    [][\A c \in DOMAIN coros :
          (inflight[Loop].c = c /\ inflight'[Loop].c = 0) =>
             /\ coros'[c].polls = coros[c].polls + 1
             /\ coros'[c].polls = coros'[c].steps
             /\ (coros'[c].out.k = "yield") <=> (fut.pend > 0)
             /\ fut.pend > 0 =>
                    coros'[c].polls + fut'.pend = coros[c].polls + fut.pend
             /\ (fut.pend = 0 /\ fut.final = "ok") =>
                    /\ coros'[c].out = Return(FutValue("ok"))
                    /\ coros'[c].future = "none"]_vars

C14_Witness ==
    \E c \in DOMAIN coros :
        /\ coros[c].steps = MaxYields + 1 /\ coros[c].polls = MaxYields + 1
        /\ coros[c].out = Return(FutValue("ok"))

\* C15: every operation recorded on a runtime-detecting waker (yield_, wake,
\* wake_threadsafe, update, raise) was run by the backend that the waker's
\* creation selected, and that backend is the one the probe reported.
C15_OneBackend ==
    \A w \in DOMAIN wakers :
        \A n, o \in wakers[w].ops :
            n[1] = "new" => n[2] = rt.lib /\ o[2] = n[2]

C15_Witness ==
    \E w \in DOMAIN wakers :
        /\ wakers[w].inner = "trio"
        /\ {o[1] : o \in wakers[w].ops} =
              {"new", "yield_", "wake", "wake_threadsafe", "update", "raise"}

\* C16: when the probe reports a library other than asyncio and trio, no
\* waker is created and the wrapped future is never polled, and every step
\* that gets as far as creating the waker (the first send, and each step
\* while the coroutine holds its future) fails with the unsupported-runtime
\* error.
C16_UnsupportedRuntime ==
    rt.W = "sniffio" /\ rt.lib \notin Backends =>
        /\ wakers = <<>>
        /\ \A t \in HostThreads : inflight[t].c = 0
        /\ \A c \in DOMAIN coros :
              /\ coros[c].polls = 0 /\ coros[c].waker = 0
              /\ (coros[c].steps >= 1 /\ coros[c].future # "none")
                    => coros[c].out = Raise(UnsupportedRuntime)
              /\ (coros[c].steps = 1 /\ coros[c].inj = "")
                    => coros[c].out = Raise(UnsupportedRuntime)

C16_Witness ==
    /\ rt.W = "sniffio" /\ rt.lib = "curio"
    /\ \E c \in DOMAIN coros :
          /\ coros[c].steps >= 2 /\ coros[c].polls = 0
          /\ coros[c].out = Raise(UnsupportedRuntime)

\* C17: every recorded call that touches a host object (Waker::new, update,
\* raise, yield_, wake, wake_threadsafe) was made by a thread holding the
\* GIL at that moment; a wake from a thread that does not hold it goes on
\* only once it has taken it.
C17_TouchUnderGil ==
    \A w \in DOMAIN wakers : \A o \in wakers[w].ops : o[4]

C17_Witness ==
    /\ gil = Host2
    /\ \E w \in DOMAIN wakers :
          /\ wakers[w].thread = Loop
          /\ \E b \in Backends :
                {<<"new", b, Loop, TRUE>>, <<"yield_", b, Loop, TRUE>>,
                 <<"wake_threadsafe", b, Exec, TRUE>>, <<"wake", b, Loop, TRUE>>}
                    \subseteq wakers[w].ops

\* C18: the thread a waker records is the thread that created it, and each
\* wake of it is the local operation exactly when the waking thread is that
\* thread, the cross-thread operation otherwise.
C18_DispatchByThread ==
    \A w \in DOMAIN wakers : \A o \in wakers[w].ops :
        /\ o[1] = "new" => o[3] = wakers[w].thread
        /\ o[1] = "wake" => o[3] = wakers[w].thread
        /\ o[1] = "wake_threadsafe" => o[3] # wakers[w].thread

C18_Witness ==
    \E w \in DOMAIN wakers : \E o1, o2, o3 \in wakers[w].ops :
        /\ wakers[w].thread = Host2
        /\ o1[1] = "wake" /\ o1[3] = Host2
        /\ o2[1] = "wake_threadsafe" /\ o2[3] = Loop
        /\ o3[1] = "update" /\ o3[3] = Loop

\* C19: the step whose poll is Ready(Err(e)) raises e and takes the future
\* out of the coroutine; after it the future is not polled again and every
\* step fails with the reuse error.
C19_ReadyErrDrops ==
    [][\A c \in DOMAIN coros :
          /\ (/\ inflight[Loop].c = c /\ inflight[Loop].m = "poll"
              /\ inflight'[Loop].c = 0
              /\ fut.pend = 0 /\ fut.final = "err")
             => /\ coros'[c].out = Raise("FutureError")
                /\ coros'[c].future = "none"
          /\ (coros[c].term = "failed" =>
                /\ coros'[c].polls = coros[c].polls
                /\ coros'[c].future = "none"
                /\ (coros'[c].steps # coros[c].steps =>
                        coros'[c].out = Raise(ReuseError)))]_vars

C19_Witness ==
    \E c \in DOMAIN coros :
        /\ coros[c].term = "failed" /\ coros[c].res = Raise("FutureError")
        /\ coros[c].out = Raise(ReuseError) /\ coros[c].polls >= 2

\* C20: the borrow of the shared handle is held only by a thread that is
\* inside the poll of a fetch, so it is released when the step returns,
\* after a Pending poll too, and no later fetch finds it borrowed; the
\* polling thread holds it without the GIL, and while it is held every thread
\* with a wake handle can wake as soon as it has the GIL: the wake takes
\* neither the borrow nor anything the polling thread holds.
C20_LockOnlyDuringPoll ==
    /\ panicked # "StreamNext.borrow_mut"
    /\ gen.lock # "-" =>
           /\ inflight[gen.lock].m = "poll"
           /\ IsFetch(coros[inflight[gen.lock].c].future)
           /\ gil # gen.lock
           /\ \A t \in Threads, w \in DOMAIN wakers :
                 (panicked = "" /\ HasHandle(t, w) /\ gil \in {"-", t})
                 => ENABLED Wake(t, w, FALSE)
    /\ \A t \in HostThreads :
           (inflight[t].m = "poll" /\ IsFetch(coros[inflight[t].c].future))
           => gen.lock = t

C20_Witness ==
    /\ gen.lock = Loop /\ inflight[Loop].woken
    /\ wakers[inflight[Loop].w].sched
    /\ coros[inflight[Loop].c].polls >= 1

\* ------------------------------------------------------------------ close
\* One coroutine of the asyncio or the trio backend, with or without a
\* throw-callback, awaited, thrown into and closed by the loop thread; the
\* callback's calls and the backend's operations are recorded.
InitClose ==
    /\ \E throw \in BOOLEAN : coros = <<NewCoroutine("user", throw, "")>>
    /\ wakers = <<>>
    /\ inflight = [t \in HostThreads |-> NoFlight]
    /\ att = [t \in HostThreads |-> FALSE]
    /\ \E p \in 0..MaxYields, fin \in {"ok", "err"} :
          fut = [pend |-> p, final |-> fin, conv |-> FALSE, cbArg |-> "-",
                 calls |-> <<>>]
    /\ gen = NoGen
    /\ stream = NoStream
    /\ panicked = ""
    /\ \E W \in Backends : rt = [W |-> W, lib |-> W, trace |-> TRUE]
    /\ ids = NoIds
    /\ fw = NoFw
    /\ agw = NoAgw
    /\ gil = "-"

\* A step or a throw on a coroutine whether or not it still holds its future.
StepAny == \E c \in DOMAIN coros : Enter(Loop, c, "")

ThrowAny == \E c \in DOMAIN coros : Enter(Loop, c, "E1")

NextClose ==
    \/ StepAny
    \/ ThrowAny
    \/ Exit(Loop)
    \/ FutClone(Loop)
    \/ WakeAfterYield
    \/ \E w \in DOMAIN wakers : LoopRun(w)
    \/ \E c \in DOMAIN coros : CloseEnter(Loop, c)
    \/ CloseExit(Loop)

SpecClose == InitClose /\ [][NextClose]_vars

\* C21: close on a coroutine that holds its future takes the future; with a
\* throw-callback the callback is called once, with None, and the future is
\* then polled once, with no waker of the coroutine, and never again; without
\* a throw-callback nothing is called or polled and close returns Ok.
C21_CloseHoldingFuture ==
    [][\A c \in DOMAIN coros :
        /\ (coros[c].term # "closed" /\ coros'[c].term = "closed") =>
              /\ coros[c].future # "none"
              /\ coros'[c].future = "none"
              /\ coros'[c].polls = coros[c].polls
              /\ IF coros[c].throw
                 THEN /\ fut'.calls = Append(fut.calls, "None")
                      /\ inflight'[Loop] = [c |-> c, m |-> "drain", w |-> 0,
                                            woken |-> FALSE]
                 ELSE /\ fut' = fut
                      /\ inflight' = inflight
                      /\ coros'[c].cout = "ok"
        /\ (inflight[Loop].m = "drain" /\ inflight[Loop].c = c
                /\ inflight'[Loop].c = 0) =>
              /\ coros'[c].polls = coros[c].polls + 1
              /\ fut'.calls = fut.calls
        /\ (coros[c].term = "closed" /\ inflight[Loop].c = 0) =>
              /\ coros'[c].polls = coros[c].polls
              /\ fut' = fut
              /\ coros'[c].term = "closed"]_vars

C21_Witness ==
    /\ coros[1].throw
    /\ coros[1].term = "closed"
    /\ inflight[Loop].c = 0
    /\ coros[1].polls >= 2
    /\ Len(fut.calls) >= 1
    /\ fut.calls[Len(fut.calls)] = "None"
    /\ Len(SelectSeq(fut.calls, LAMBDA a : a = "None")) = 1


\* C22 (as stated): once a coroutine has a waker, every later step keeps that
\* same waker object, whatever clones of it are held.
C22_OneWakerForLife ==
    [][\A c \in DOMAIN coros :
          coros[c].waker # 0 => coros'[c].waker = coros[c].waker]_vars

\* C22 (amended): the waker is created by the first step that reaches
\* polling; a later step that reaches polling refreshes that same waker when
\* no clone of it is held outside the coroutine, and puts a newly created
\* waker in its place when one is; nothing else changes the waker.
C22_WakerKeptUnlessShared ==
    [][\A c \in DOMAIN coros :
          LET old == coros[c].waker
              new == coros'[c].waker
              polling == \E t \in HostThreads :
                            /\ inflight[t].c = 0
                            /\ inflight'[t] = [c |-> c, m |-> "poll", w |-> new,
                                               woken |-> FALSE]
          IN
          /\ new # old => polling /\ new # 0
          /\ (polling /\ old = 0) =>
                wakers'[new] = NewWaker(CHOOSE t \in HostThreads : inflight'[t].c = c)
          /\ (polling /\ old # 0 /\ ~wakers[old].held) =>
                /\ new = old
                /\ wakers'[new].fut = "pending"
                /\ wakers'[new].thread = wakers[old].thread
          /\ (polling /\ old # 0 /\ wakers[old].held) =>
                /\ new # old
                /\ wakers'[old].held
                /\ wakers'[old].fut = wakers[old].fut
                /\ wakers'[new] =
                      NewWaker(CHOOSE t \in HostThreads : inflight'[t].c = c)]_vars

C22_Witness ==
    /\ coros[1].waker # 0
    /\ inflight[Loop].m = "poll"
    /\ inflight[Loop].w = coros[1].waker
    /\ coros[1].steps >= 2
    /\ \E w \in DOMAIN wakers :
          /\ w # coros[1].waker
          /\ wakers[w].held
          /\ wakers[w].thread = Loop


\* C23: a step's injected error is the explicit argument when there is one,
\* and the waker's raise is then not called; without argument it is what the
\* existing waker's raise reports, and nothing when no waker exists yet.  The
\* error is seen where the step hands it over: to the throw-callback, or to
\* the caller when there is no callback.
C23_EffectiveError ==
    [][\A c \in DOMAIN coros :
          LET co  == coros[c]
              co2 == coros'[c]
              old == co.waker
              exc == co2.inj
              eff == IF exc # "" THEN exc
                     ELSE IF old = 0 THEN ""
                     ELSE WakerRaise(rt.W, wakers[old].fut)
          IN (co2.steps = co.steps + 1 /\ co.future # "none") =>
                /\ (exc # "" /\ old # 0) =>
                      \A o \in wakers'[old].ops \ wakers[old].ops : o[1] # "raise"
                /\ (exc = "" /\ old # 0) =>
                      \E o \in wakers'[old].ops : o[1] = "raise"
                /\ IF eff = ""
                   THEN fut'.calls = fut.calls /\ co2.term # "thrown"
                   ELSE IF co.throw
                   THEN fut'.calls = Append(fut.calls, eff) /\ co2.term # "thrown"
                   ELSE /\ fut'.calls = fut.calls
                        /\ co2.out = Raise(eff)
                        /\ co2.term = "thrown"]_vars

C23_Witness ==
    /\ coros[1].throw
    /\ coros[1].inj = "E1"
    /\ coros[1].steps = 2
    /\ inflight[Loop].m = "poll"
    /\ fut.calls = <<"E1">>
    /\ rt.W = "asyncio"
    /\ \E w \in DOMAIN wakers :
          /\ wakers[w].fut = "pending"
          /\ \A o \in wakers[w].ops : o[1] # "raise"


\* C24 (as stated): a step with an injected error e on a coroutine that holds
\* its future and has a throw-callback calls the callback once, with e, and
\* goes on to poll the future in that same step.
C24_ThrowCallbackThenPoll ==
    [][\A c \in DOMAIN coros :
          LET co  == coros[c]
              co2 == coros'[c]
              old == co.waker
              exc == co2.inj
              eff == IF exc # "" THEN exc
                     ELSE IF old = 0 THEN ""
                     ELSE WakerRaise(Backend("raise", wakers[old]), wakers[old].fut)
          IN (co2.steps = co.steps + 1 /\ co.future # "none" /\ co.throw /\ eff # "") =>
                /\ fut'.calls = Append(fut.calls, eff)
                /\ \E t \in HostThreads : inflight'[t].c = c /\ inflight'[t].m = "poll"]_vars

\* C24 (amended): such a step calls the callback once, with e, before the
\* waker is created or refreshed: when the waker cannot be created the
\* callback has been called all the same and the step fails with the
\* creation's error, the future not polled.  Otherwise the future is polled
\* once in that step, with the created or refreshed waker, and the step's
\* outcome comes from that poll: the future's result on Ready, the value or
\* the error of the waker's yield_ on Pending, and never e.
C24_CallbackThenWakerThenPoll ==
    [][\A c \in DOMAIN coros :
          LET co  == coros[c]
              co2 == coros'[c]
              old == co.waker
              exc == co2.inj
              eff == IF exc # "" THEN exc
                     ELSE IF old = 0 THEN ""
                     ELSE WakerRaise(Backend("raise", wakers[old]), wakers[old].fut)
              creates == old = 0 \/ wakers[old].held
          IN
          /\ (co2.steps = co.steps + 1 /\ co.future # "none" /\ co.throw /\ eff # "") =>
                /\ fut'.calls = Append(fut.calls, eff)
                /\ co2.polls = co.polls
                /\ co2.future # "none"
                /\ IF creates /\ rt.W = "sniffio" /\ rt.lib \notin Backends
                   THEN /\ co2.out = Raise(UnsupportedRuntime)
                        /\ co2.waker = old
                        /\ \A t \in HostThreads : inflight'[t].c = 0
                   ELSE /\ co2.waker # 0
                        /\ wakers'[co2.waker].fut = "pending"
                        /\ \E t \in HostThreads :
                              inflight'[t] = [c |-> c, m |-> "poll", w |-> co2.waker,
                                              woken |-> FALSE]
          /\ (\E t \in HostThreads :
                 /\ inflight[t].c = c /\ inflight[t].m = "poll" /\ inflight'[t].c = 0
                 /\ co.throw /\ co.inj # "") =>
                /\ co2.polls = co.polls + 1
                /\ fut'.calls = fut.calls
                /\ co2.out # Raise(co.inj)
                /\ co2.lastPoll = "ready" =>
                      co2.out = IF fut.final = "err" THEN Raise("FutureError")
                                ELSE Return(FutValue(fut.final))
                /\ co2.lastPoll = "pending" =>
                      co2.out \in {Yield(co.waker), Raise("StopIteration"),
                                   Raise("CancelledError")}]_vars

C24_Witness ==
    /\ rt.lib = "trio"
    /\ coros[1].throw
    /\ coros[1].inj = "E1"
    /\ coros[1].steps = 2
    /\ coros[1].polls = 2
    /\ fut.calls = <<"E1">>
    /\ coros[1].lastPoll = "ready"
    /\ coros[1].out.k # "yield"
    /\ inflight[Loop].c = 0


\* ------------------------------------------------------ current_thread_id
FetchAdd_Load(counter) == counter

\* utils.rs 10: THREAD_COUNTER.fetch_add(1, Ordering::Relaxed) leaves
\* counter + 1 in the static, in one atomic step, and returns the old value.
FetchAdd(counter) == counter + 1

ThreadSpawn(th) ==
    /\ ids.life[th] = "unborn"
    /\ \A o \in OsThreads : o < th => ids.life[o] # "unborn"
    /\ ids' = [ids EXCEPT !.life[th] = "alive"]
    /\ UNCHANGED <<coros, wakers, inflight, att, fut, gen, stream, panicked, rt, gil,
                 fw, agw>>

\* utils.rs 12: THREAD_ID.with(|id| *id), running the initializer of line 10
\* on the thread's first call.
current_thread_id(th) ==
    /\ ids.life[th] = "alive"
    /\ LET first == ids.THREAD_ID[th] = Uninit
           id    == IF first THEN ids.THREAD_COUNTER ELSE ids.THREAD_ID[th]
       IN ids' = [ids EXCEPT !.THREAD_COUNTER = IF first THEN FetchAdd(@) ELSE @,
                             !.THREAD_ID[th] = id,
                             !.read[th] = @ \cup {id}]
    /\ UNCHANGED <<coros, wakers, inflight, att, fut, gen, stream, panicked, rt, gil,
                 fw, agw>>

\* The thread ends: its thread-locals are destroyed.
ThreadExit(th) ==
    /\ ids.life[th] = "alive"
    /\ ids' = [ids EXCEPT !.life[th] = "exited", !.THREAD_ID[th] = Uninit]
    /\ UNCHANGED <<coros, wakers, inflight, att, fut, gen, stream, panicked, rt, gil,
                 fw, agw>>

InitTid ==
    /\ coros = <<>>
    /\ wakers = <<>>
    /\ inflight = [t \in HostThreads |-> NoFlight]
    /\ att = [t \in HostThreads |-> FALSE]
    /\ fut = NoFuture
    /\ gen = NoGen
    /\ stream = NoStream
    /\ panicked = ""
    /\ rt = AsyncioRt
    /\ gil = "-"
    /\ ids = NoIds
    /\ fw = NoFw
    /\ agw = NoAgw

NextTid ==
    \/ \E th \in OsThreads : ThreadSpawn(th)
    \/ \E th \in OsThreads : current_thread_id(th)
    \/ \E th \in OsThreads : ThreadExit(th)

SpecTid == InitTid /\ [][NextTid]_vars

\* C25: a thread gets its id at its first current_thread_id call, from a
\* counter that never goes down; every call of one thread returns the same
\* id, and no two threads, alive or exited, are ever given the same id.
C25_ThreadIdsUnique ==
    /\ \A th \in OsThreads :
          /\ Cardinality(ids.read[th]) <= 1
          /\ ids.THREAD_ID[th] # Uninit => ids.read[th] = {ids.THREAD_ID[th]}
          /\ ids.read[th] = {} => ids.THREAD_ID[th] = Uninit
          /\ \A i \in ids.read[th] : i < ids.THREAD_COUNTER
    /\ \A a, b \in OsThreads : a # b => ids.read[a] \cap ids.read[b] = {}
    /\ ids.THREAD_COUNTER =
          Cardinality({th \in OsThreads : ids.read[th] # {}})

C25_Witness ==
    /\ ids.life[1] = "exited"
    /\ ids.read[1] = {1}
    /\ ids.life[2] = "exited"
    /\ ids.read[2] = {0}
    /\ ids.life[3] = "alive"
    /\ ids.read[3] = {2}


\* ----------------------------------------------------------------- athrow
\* One AsyncGenerator with a throw-callback over a stream of NItems items:
\* the loop thread calls asend or athrow, awaits the coroutine it returns
\* and drops it before the next call; the callback's calls are recorded.
InitAthrow ==
    /\ coros = <<>>
    /\ wakers = <<>>
    /\ inflight = [t \in HostThreads |-> NoFlight]
    /\ att = [t \in HostThreads |-> FALSE]
    /\ fut = NoFuture
    /\ gen = [NoGen EXCEPT !.son = "Stream", !.slot = TRUE, !.throw = TRUE]
    /\ \E p \in 0..MaxPending : stream = [pos |-> 0, pend |-> p, late |-> 0]
    /\ panicked = ""
    /\ rt = [W |-> "asyncio", lib |-> "asyncio", trace |-> TRUE]
    /\ ids = NoIds
    /\ fw = NoFw
    /\ agw = NoAgw
    /\ gil = "-"

NextAthrow ==
    \/ coros = <<>> /\ GenNext
    \/ \E e \in Errors : coros = <<>> /\ GenThrow(e)
    \/ AwaitStep(Loop)
    \/ Exit(Loop)
    \/ \E c \in DOMAIN coros : Drop(c)
    \/ StoreWaker(Loop)
    \/ WakeOnce(Loop)

SpecAthrow == InitAthrow /\ [][NextAthrow]_vars

\* C26: on a generator with a throw-callback, throw(e) calls the callback
\* once, with e, in the call itself and without polling the stream, and hands
\* out the coroutine next() would hand out; no step of a coroutine calls the
\* callback, and an awaited coroutine handed out by throw(e) resolves to the
\* stream's next item or to StopAsyncIteration, never to e.
C26_ThrowWithCallbackFetches ==
    [][/\ (Len(coros') = Len(coros) + 1 /\ coros'[Len(coros')].arg \in Errors) =>
            /\ gen'.calls = Append(gen.calls, coros'[Len(coros')].arg)
            /\ stream' = stream
            /\ gen'.slot = gen.slot
            /\ [coros'[Len(coros')] EXCEPT !.arg = ""] = NewCoroutine("fetch", FALSE, "")
       /\ Len(coros') = Len(coros) + 1 =>
            \/ coros'[Len(coros')].arg \in Errors
            \/ gen'.calls = gen.calls /\ coros'[Len(coros')] = NewCoroutine("fetch", FALSE, "")
       /\ Len(coros') <= Len(coros) => gen'.calls = gen.calls
       /\ \A c \in DOMAIN coros :
            (/\ Len(coros') = Len(coros) /\ coros[c].arg \in Errors
             /\ coros[c].res = NoOut /\ coros'[c].res # NoOut) =>
               /\ coros'[c].res # Raise(coros[c].arg)
               /\ coros'[c].res \in
                     {Return(Items[i]) : i \in 1..NItems} \cup {Raise(StopAsyncIteration)}
               /\ coros'[c].res.k = "return" =>
                     /\ stream'.pos = stream.pos + 1
                     /\ coros'[c].res = Return(Items[stream'.pos])]_vars

C26_Witness ==
    /\ gen.calls = <<"E1", "E2">>
    /\ stream.pos = 2
    /\ Len(coros) = 1
    /\ coros[1].arg = "E2"
    /\ coros[1].polls >= 2
    /\ coros[1].res = Return(Items[2])


\* ---------------------------------------------------------- FutureWrapper
Policies == {"None", "IgnoreError", "PanicOnError"}

\* Future.result(): the value, or the exception raised.
PyResult(py) ==
    CASE py = "done"      -> "Ok(value)"
      [] py = "failed"    -> "Err(exception)"
      [] py = "cancelled" -> "Err(CancelledError)"
      [] OTHER            -> "Err(InvalidStateError)"

\* lib.rs 122: utils::WakeCallback(Some(cx.waker().clone())), a Python
\* callable holding the wake handle of the poll that made it.
WakeCallback(waker) == [waker |-> waker]

\* Calling the callback invokes the wake handle it holds.
WakeCallbackCall(cb) == cb.waker

CancelOnDropAfterReady_Keep(policy) == policy

\* lib.rs 119: self.inner.cancel_on_drop = None
CancelOnDropAfterReady(policy) == "None"

RegisterCallback_Once(cbs, cb) == IF cbs = <<>> THEN <<cb>> ELSE cbs

\* lib.rs 122-125: each Pending poll adds a done-callback of its own.
RegisterCallback(cbs, cb) == Append(cbs, cb)

\* A future that finishes calls its done-callbacks, in order.
CallAll(f) ==
    [f EXCEPT !.woken = @ \o [i \in 1..Len(f.cbs) |-> WakeCallbackCall(f.cbs[i])],
              !.cbs = <<>>]

OthersFw == <<coros, wakers, inflight, att, fut, gen, stream, rt, gil, ids, agw>>

\* lib.rs 113-121: the poll calls done(); when true it forgets the policy and
\* returns Ready(result()).
FwPollDone ==
    /\ panicked = ""
    /\ fw.life = "live" /\ fw.pc = "idle" /\ ~fw.readied
    /\ fw.polls < MaxPolls
    /\ fw' = IF fw.py # "pending"
             THEN [fw EXCEPT !.polls = @ + 1,
                             !.cancel_on_drop = CancelOnDropAfterReady(@),
                             !.last = PyResult(fw.py), !.readied = TRUE]
             ELSE [fw EXCEPT !.polls = @ + 1, !.pc = "checked"]
    /\ UNCHANGED <<panicked, OthersFw>>

\* lib.rs 122-126: add_done_callback with this poll's wake handle, then
\* Pending.  A future that has finished since done() calls the callback at
\* once.
FwPollRegister ==
    /\ panicked = ""
    /\ fw.pc = "checked"
    /\ LET cb == WakeCallback(fw.polls) IN
       fw' = IF fw.py = "pending"
             THEN [fw EXCEPT !.cbs = RegisterCallback(@, cb),
                             !.last = "Pending", !.pc = "idle"]
             ELSE [fw EXCEPT !.woken = Append(@, WakeCallbackCall(cb)),
                             !.last = "Pending", !.pc = "idle"]
    /\ UNCHANGED <<panicked, OthersFw>>

\* The host finishes the Python future: set_result, set_exception or cancel.
PyFinish(how) ==
    /\ panicked = ""
    /\ fw.life # "none"
    /\ fw.py = "pending"
    /\ fw' = CallAll([fw EXCEPT !.py = how])
    /\ UNCHANGED <<panicked, OthersFw>>

\* lib.rs 138-147: Drop for FutureWrapper.  cancel() cancels a pending
\* future and does nothing to a finished one; `fails` is a cancel call that
\* raises.
FwDrop(fails) ==
    /\ panicked = ""
    /\ fw.life = "live" /\ fw.pc = "idle"
    /\ IF fw.cancel_on_drop = "None"
       THEN /\ fw' = [fw EXCEPT !.life = "dropped"]
            /\ UNCHANGED panicked
       ELSE IF fails
       THEN /\ fw' = [fw EXCEPT !.life = "dropped", !.cancels = @ + 1,
                                !.cancelRes = "Err"]
            /\ panicked' = IF fw.cancel_on_drop = "PanicOnError"
                           THEN "FutureWrapper::drop" ELSE panicked
       ELSE /\ fw' = IF fw.py = "pending"
                     THEN CallAll([fw EXCEPT !.life = "dropped", !.cancels = @ + 1,
                                             !.cancelRes = "Ok", !.py = "cancelled"])
                     ELSE [fw EXCEPT !.life = "dropped", !.cancels = @ + 1,
                                     !.cancelRes = "Ok"]
            /\ UNCHANGED panicked
    /\ UNCHANGED OthersFw

\* FutureWrapper::new (lib.rs 93-98) around a future that is pending or has
\* finished already.
InitFw ==
    /\ coros = <<>>
    /\ wakers = <<>>
    /\ inflight = [t \in HostThreads |-> NoFlight]
    /\ att = [t \in HostThreads |-> FALSE]
    /\ fut = NoFuture
    /\ gen = NoGen
    /\ stream = NoStream
    /\ panicked = ""
    /\ rt = AsyncioRt
    /\ gil = "-"
    /\ ids = NoIds
    /\ \E policy \in Policies :
          fw = [NoFw EXCEPT !.cancel_on_drop = policy, !.built = policy,
                            !.life = "live"]
    /\ agw = NoAgw

NextFw ==
    \/ FwPollDone
    \/ FwPollRegister
    \/ \E how \in {"done", "failed", "cancelled"} : PyFinish(how)
    \/ \E fails \in BOOLEAN : FwDrop(fails)

SpecFw == InitFw /\ [][NextFw]_vars

Finishes == {"Ok(item)", "Err(StopAsyncIteration)", "Err(exception)"}

\* AwaitableWrapper::poll (asyncio.rs 103-119) on awaitable a: result() of
\* the future yielded before must not raise; then __next__ yields one more
\* future (Pending) or finishes.
AwaitablePoll(a) ==
    CASE a.yielded = "pending" -> [p |-> "Err(InvalidStateError)", a |-> a]
      [] a.yielded = "failed"  -> [p |-> "Err(exception)", a |-> a]
      [] a.yielded = "cancelled" -> [p |-> "Err(CancelledError)", a |-> a]
      [] a.left > 0 ->
            [p |-> "Pending", a |-> [a EXCEPT !.left = @ - 1, !.yielded = "pending"]]
      [] OTHER -> [p |-> a.fin, a |-> a]

PollNextItem_StopAsErr(res) ==
    IF res = "Ok(item)" THEN "Some(Ok(item))" ELSE "Some(" \o res \o ")"

\* asyncio.rs 252-256
PollNextItem(res) ==
    CASE res = "Ok(item)"                -> "Some(Ok(item))"
      [] res = "Err(StopAsyncIteration)" -> "None"
      [] OTHER                           -> "Some(" \o res \o ")"

OthersAgw == <<coros, wakers, inflight, att, fut, gen, stream, panicked, rt, gil,
               ids, fw>>

\* poll_next (asyncio.rs 240-257).  The awaitable a new __anext__ call
\* returns yields `left` futures and then finishes as `fin`.
AgwPollNext ==
    /\ agw.polls < MaxPolls
    /\ \E left \in 0..MaxPending, fin \in Finishes :
          LET a == IF agw.next
                   THEN [id |-> agw.id, left |-> agw.left, fin |-> agw.fin,
                         yielded |-> agw.yielded]
                   ELSE [id |-> agw.anexts + 1, left |-> left, fin |-> fin,
                         yielded |-> "-"]
              r == AwaitablePoll(a)
          IN agw' = IF r.p = "Pending"
                    THEN [next |-> TRUE, id |-> a.id, left |-> r.a.left,
                          fin |-> r.a.fin, yielded |-> r.a.yielded,
                          anexts |-> IF agw.next THEN agw.anexts ELSE agw.anexts + 1,
                          polls |-> agw.polls + 1, last |-> "Pending",
                          res |-> r.p, lastId |-> a.id, given |-> agw.given]
                    ELSE [next |-> FALSE, id |-> 0, left |-> 0, fin |-> "-",
                          yielded |-> "-",
                          anexts |-> IF agw.next THEN agw.anexts ELSE agw.anexts + 1,
                          polls |-> agw.polls + 1, last |-> PollNextItem(r.p),
                          res |-> r.p, lastId |-> a.id,
                          given |-> agw.given + (IF PollNextItem(r.p) = "Some(Ok(item))"
                                                 THEN 1 ELSE 0)]
    /\ UNCHANGED OthersAgw

\* The event loop finishes the future the awaitable in flight has yielded.
PyYieldedDone(how) ==
    /\ agw.next
    /\ agw.yielded = "pending"
    /\ agw' = [agw EXCEPT !.yielded = how]
    /\ UNCHANGED OthersAgw

InitAgw ==
    /\ coros = <<>>
    /\ wakers = <<>>
    /\ inflight = [t \in HostThreads |-> NoFlight]
    /\ att = [t \in HostThreads |-> FALSE]
    /\ fut = NoFuture
    /\ gen = NoGen
    /\ stream = NoStream
    /\ panicked = ""
    /\ rt = AsyncioRt
    /\ gil = "-"
    /\ ids = NoIds
    /\ fw = NoFw
    /\ agw = NoAgw

NextAgw ==
    \/ AgwPollNext
    \/ \E how \in {"done", "failed", "cancelled"} : PyYieldedDone(how)

SpecAgw == InitAgw /\ [][NextAgw]_vars

\* C28: poll_next calls __anext__ only when it holds no awaitable and polls
\* the awaitable it holds otherwise; a Pending poll keeps that awaitable for
\* the next poll; a poll whose awaitable finishes clears it and gives
\* Some(Ok(v)) for a value, None for StopAsyncIteration and Some(Err(e)) for
\* any other error.
C28_OneAnextInFlight ==
    /\ [](agw.next => agw.id = agw.anexts /\ agw.last = "Pending")
    /\ [][agw'.polls = agw.polls + 1 =>
             /\ agw'.anexts = agw.anexts + (IF agw.next THEN 0 ELSE 1)
             /\ agw'.lastId = IF agw.next THEN agw.id ELSE agw.anexts + 1
             /\ agw'.res = "Pending" =>
                   agw'.last = "Pending" /\ agw'.next /\ agw'.id = agw'.lastId
             /\ agw'.res # "Pending" => ~agw'.next
             /\ agw'.res = "Ok(item)" => agw'.last = "Some(Ok(item))"
             /\ agw'.res = "Err(StopAsyncIteration)" => agw'.last = "None"
             /\ agw'.res \in {"Err(exception)", "Err(InvalidStateError)",
                             "Err(CancelledError)"} =>
                   agw'.last = "Some(" \o agw'.res \o ")"
             /\ agw'.given = agw.given + (IF agw'.res = "Ok(item)" THEN 1 ELSE 0)]_vars

C28_Witness ==
    /\ agw.polls = 3
    /\ agw.anexts = 2
    /\ agw.lastId = 2
    /\ agw.last = "None"
    /\ agw.given = 1
    /\ ~agw.next


\* C30: on a coroutine that no longer holds its future (it has returned,
\* failed, was thrown into or closed) and is not inside a call, close can be
\* called and does nothing but return Ok: the callback is not called, nothing
\* is polled, and a close after a close that returned Ok changes nothing.
C30_CloseWithoutFuture ==
    \A c \in DOMAIN coros :
        (/\ coros[c].future = "none" /\ panicked = ""
         /\ \A t \in HostThreads : inflight[t].c = 0) =>
           /\ ENABLED CloseEnter(Loop, c)
           /\ ~ENABLED (/\ CloseEnter(Loop, c)
                        /\ ~(/\ coros' = [coros EXCEPT ![c].cout = "ok"]
                             /\ UNCHANGED <<wakers, inflight, att, fut, gen, stream,
                                            panicked, rt, gil, ids, fw, agw>>))
           /\ coros[c].cout = "ok" =>
                 ~ENABLED (CloseEnter(Loop, c) /\ vars' # vars)

C30_Witness ==
    /\ coros[1].throw
    /\ coros[1].term = "returned"
    /\ coros[1].cout = "ok"
    /\ coros[1].polls = 2
    /\ fut.calls = <<>>
    /\ inflight[Loop].c = 0

\* ------------------------------------------------------------ host errors
\* The host changes what runs on its threads between two calls: it starts or
\* leaves an event loop or a trio run, or the probe reports another library.
\* A Coroutine of the asyncio or the trio backend is only given to its own
\* library.
HostSwitch(lib) ==
    /\ panicked = ""
    /\ \A t \in HostThreads : inflight[t].c = 0
    /\ lib # rt.lib
    /\ rt.W \in Backends => lib \in {rt.W, NoLib}
    /\ rt' = [rt EXCEPT !.lib = lib]
    /\ UNCHANGED <<coros, wakers, inflight, att, fut, gen, stream, panicked, gil,
                   ids, fw, agw>>

\* The host cancels the awaitable a step has yielded to it (asyncio.rs 39-43:
\* the waker's asyncio.Future, which only the yield hands to Python code).
Cancel(c) ==
    /\ panicked = ""
    /\ c \in DOMAIN coros
    /\ Suspended(c)
    /\ Backend("yield_", wakers[coros[c].waker]) = "asyncio"
    /\ wakers[coros[c].waker].fut = "pending"
    /\ wakers' = [wakers EXCEPT ![coros[c].waker] = [@ EXCEPT !.fut = "cancelled"]]
    /\ UNCHANGED <<coros, inflight, att, fut, gen, stream, panicked, rt, gil,
                   ids, fw, agw>>

\* One coroutine of the asyncio, the trio or the runtime-detecting backend,
\* with or without a throw-callback, stepped and thrown into by the loop
\* thread at any time, woken once for each poll, during it or after its
\* yield, by the loop thread or an executor thread, under a host that
\* switches libraries and cancels awaitables.
InitHostErr ==
    /\ \E throw \in BOOLEAN : coros = <<NewCoroutine("user", throw, "")>>
    /\ wakers = <<>>
    /\ inflight = [t \in HostThreads |-> NoFlight]
    /\ att = [t \in HostThreads |-> FALSE]
    /\ \E p \in 0..MaxYields, fin \in {"ok", "err"} :
          fut = [pend |-> p, final |-> fin, conv |-> FALSE, cbArg |-> "-",
                 calls |-> <<>>]
    /\ gen = NoGen
    /\ stream = NoStream
    /\ panicked = ""
    /\ \E W \in Backends \cup {"sniffio"}, lib \in Libs \cup {NoLib} :
          /\ W \in Backends => lib \in {W, NoLib}
          /\ rt = [W |-> W, lib |-> lib, trace |-> FALSE]
    /\ ids = NoIds
    /\ fw = NoFw
    /\ agw = NoAgw
    /\ gil = "-"

NextHostErr ==
    \/ StepAny
    \/ ThrowAny
    \/ Exit(Loop)
    \/ FutClone(Loop)
    \/ \E t \in {Loop, Exec} : WakeOnce(t)
    \/ \E t \in {Loop, Exec} : WakeInPoll(t)
    \/ \E w \in DOMAIN wakers : wakers[w].inner = rt.lib /\ LoopRun(w)
    \/ \E lib \in Libs \cup {NoLib} : HostSwitch(lib)
    \/ \E c \in DOMAIN coros : Cancel(c)

SpecHostErr == InitHostErr /\ [][NextHostErr]_vars

\* The latest step of coroutine co that has returned failed in the creation
\* or the refresh of its waker, or in building the value to yield after a
\* Pending poll.
HostFailed(co) ==
    /\ co.out.k = "err"
    /\ co.out.e \in WakerErrors \/ co.lastPoll = "pending"

\* C31: a step that fails in waker creation, waker refresh or yield-value
\* construction returns that host error and keeps the wrapped future: the
\* coroutine reaches no terminal state, and the step after it never fails
\* with the reuse error; unless it carries an error that a coroutine without
\* throw-callback is dropped for, it creates or refreshes the waker and, when
\* that host call succeeds, polls the future again.
C31_HostErrorKeepsFuture ==
    /\ [](\A c \in DOMAIN coros :
            HostFailed(coros[c]) /\ ~Borrowed(c) =>
                /\ coros[c].future = "user"
                /\ coros[c].term = ""
                /\ coros[c].res = NoOut)
    /\ [][\A c \in DOMAIN coros :
            LET a == coros[c]
                b == coros'[c]
            IN
            \* the step that fails: in Enter (new, update), in Exit (yield_)
            /\ (~Borrowed(c) /\ b.steps = a.steps + 1 /\ inflight'[Loop].c = 0
                    /\ b.out.k = "err" /\ b.out.e \in WakerErrors) =>
                  /\ b.future = a.future /\ a.future # "none"
                  /\ b.polls = a.polls
                  /\ wakers' = wakers
            /\ (inflight[Loop].c = c /\ inflight'[Loop].c = 0
                    /\ b.out.k = "err" /\ b.lastPoll = "pending") =>
                  /\ b.future = a.future /\ a.future # "none"
                  /\ b.out.e = "StopIteration"
                  /\ b.polls = a.polls + 1
            \* the step after it
            /\ (HostFailed(a) /\ ~Borrowed(c) /\ b.steps = a.steps + 1) =>
                  /\ b.out # Raise(ReuseError)
                  /\ IF b.inj # "" /\ ~a.throw
                     THEN b.out = Raise(b.inj) /\ b.term = "thrown"
                     ELSE \/ /\ inflight'[Loop] =
                                   [c |-> c, m |-> "poll", w |-> b.waker,
                                    woken |-> FALSE]
                             /\ b.waker # 0
                             /\ wakers'[b.waker].fut = "pending"
                             /\ ~wakers'[b.waker].sched
                             /\ b.waker = a.waker =>
                                   a.waker # 0 /\ ~wakers[a.waker].held
                             /\ b.future = "user" /\ b.term = ""
                          \/ /\ inflight'[Loop].c = 0
                             /\ HostFailed(b)
                             /\ b.out.e \in WakerErrors
                             /\ rt.lib \notin Backends]_vars

C31_Witness ==
    /\ coros[1].out = Raise(NoEventLoop)
    /\ coros[1].polls >= 1
    /\ coros[1].steps = 3
    /\ inflight[Loop] = [c |-> 1, m |-> "poll", w |-> coros[1].waker,
                         woken |-> FALSE]
    /\ wakers[coros[1].waker].fut = "pending"
    /\ rt.lib = "asyncio"

\* C32: on the asyncio backend, a step without explicit error that follows a
\* yield sees no injected error exactly when the yielded awaitable is done,
\* which only a wake makes it; when the awaitable was cancelled or is still
\* pending, Waker::raise reports CancelledError or InvalidStateError: a
\* coroutine with a throw-callback passes it to the callback, one without
\* drops its future and fails with that error, without creating or
\* refreshing a waker and without polling.
C32_UnresolvedAwaitableInjects ==
    [][/\ \A c \in DOMAIN coros :
            LET a == coros[c]
                b == coros'[c]
                f == wakers[a.waker].fut
                e == IF f = "pending" THEN "InvalidStateError" ELSE "CancelledError"
            IN
            (/\ ~Borrowed(c) /\ b.steps = a.steps + 1 /\ b.inj = ""
             /\ a.out.k = "yield"
             /\ Backend("raise", wakers[a.waker]) = "asyncio") =>
                /\ a.out = Yield(a.waker) /\ a.future = "user"
                /\ f \in {"pending", "done", "cancelled"}
                /\ IF f = "done"
                   THEN /\ fut' = fut
                        /\ b.term = "" /\ b.future = "user"
                        /\ \/ inflight'[Loop] =
                                 [c |-> c, m |-> "poll", w |-> b.waker,
                                  woken |-> FALSE]
                           \/ inflight' = inflight /\ b.out.e \in WakerErrors
                   ELSE IF a.throw
                   THEN /\ fut'.cbArg = e
                        /\ b.term = "" /\ b.future = "user"
                   ELSE /\ b.future = "none"
                        /\ b.out = Raise(e)
                        /\ b.term = "thrown"
                        /\ b.polls = a.polls
                        /\ b.waker = a.waker
                        /\ <<wakers, inflight, fut>>' = <<wakers, inflight, fut>>
       \* an awaitable becomes done by a wake only: set_result called by a
       \* local wake, or queued by wake_threadsafe and run by the loop
       /\ \A w \in DOMAIN wakers :
            (w \in DOMAIN wakers' /\ wakers'[w].fut = "done"
                /\ wakers[w].fut # "done") =>
                /\ wakers[w].fut = "pending"
                /\ \/ wakers[w].sched /\ ~wakers'[w].sched
                   \/ \E t \in HostThreads :
                         HasHandle(t, w) /\ wakers[w].thread = t]_vars

C32_Witness ==
    /\ rt.W = "asyncio"
    /\ ~coros[1].throw
    /\ coros[1].inj = ""
    /\ coros[1].out = Raise("CancelledError")
    /\ coros[1].term = "thrown"
    /\ coros[1].future = "none"
    /\ coros[1].polls = 1
    /\ inflight[Loop].c = 0
====
